---- MODULE Spec2Model ----
\* ----------------------------------------------------------------------
\* Model of the discdiag command interpreter (src/discdiag.c) running on
\* the in-memory block device adapter (src/stubio.c).
\*
\* Text is modelled at word level.  A line is a sequence of tokens; a
\* token is either the command separator ';' or one command: its verb and
\* the words that follow it (names and expressions).  A character pointer
\* (a char pointer) is a cursor [lin, chr, off]: the line it points into, the
\* token, and how many words of that token lie before it (0 = in front of
\* the verb, 1 = just after the verb, ...).  A cursor behind the last word
\* of a token is the cursor in front of the next token.
\*
\* A pointer to a list node is modelled by the node's identity: a stored
\* line by the id it got when it was allocated (0 is main's dummyline),
\* a variable by its height above the bottom of the variable stack
\* (0 is NULL).  Lists are sequences with the root of the list first.
\* ----------------------------------------------------------------------
EXTENDS Integers, Sequences, FiniteSets, TLC

\* ----------------------------------------------------------------------
\* Bounds of the model.
\* ----------------------------------------------------------------------
\* number of input lines read at the prompt in one run
MaxPrompts == 3
\* sectors of the read and write buffers (256 in discio.h, scaled down)
NOSECS == 2
\* the largest int (2147483647 in the program, scaled down)
INT_MAX == 7
\* sectors of the simulated disc (32 in stubio.c, scaled down)
SIMSEC == 3
\* 32 bit words in a sector (128 in the program, scaled down)
SECDW == 2
\* bytes on a line of a dump (16 in the program, scaled down)
DUMPLINE == 4
\* the modulus of the random number generator (2147483647 in the program,
\* scaled down)
RANDMOD == 31

\* ----------------------------------------------------------------------
\* Program constants.
\* ----------------------------------------------------------------------
SECSIZE == 4 * SECDW
NULL == 0
NOLINE == -1

\* ----------------------------------------------------------------------
\* Words, tokens and lines.
\* ----------------------------------------------------------------------
Num(k) == <<"num", k>>
Var(x) == <<"var", x>>
Neg(e) == <<"neg", e>>
Pos(e) == <<"pos", e>>
Bin(op, a, b) == <<op, a, b>>

Cmd(v, a) == [verb |-> v, args |-> a]
SEP == Cmd(";", <<>>)

\* an input line: typed with a leading number (edit) or without (execute)
Exe(b) == [edit |-> FALSE, num |-> 0, label |-> "", params |-> <<>>, body |-> b]
Edt(n, lab, ps, b) == [edit |-> TRUE, num |-> n, label |-> lab, params |-> ps, body |-> b]

\* b1; b2; ... as one line
RECURSIVE Semi(_)
Semi(cs) ==
    IF Len(cs) = 0 THEN <<>>
    ELSE IF Len(cs) = 1 THEN <<cs[1]>>
    ELSE <<cs[1], SEP>> \o Semi(Tail(cs))

\* ----------------------------------------------------------------------
\* State.
\* ----------------------------------------------------------------------
VARIABLES
    pc,           \* where main is: "nxtlin", "exec" (about to call exec), "ret"
                  \* (exec has returned r), "exit" (the process has ended)
    r,            \* result of the last exec call
    linebuffer,   \* the input line last read (its tokens)
    linep,        \* main's cursor
    introot,      \* interpreter stack
    varroot,      \* user variable stack
    ctlroot,      \* control stack
    editroot,     \* stored program
    nextid,       \* identity of the next linestr allocated
    dummyloop,    \* dummyline.looplist
    handles,      \* device handles the adapter holds open (linuxio.c, winio.c)
    writeprot, currentdrive, drivesize,
    lastlock,     \* not in the program: what touched the write protection last,
                  \* "start", "drive" (a drive command that selected) or "unprot"
    phydrive, disc,                     \* the adapter (stubio.c)
    wrcalls, rdcalls,                   \* calls of writesector, readsector so far
    writebuffer, readbuffer,
    iopwrite, iopread, bcwrite, bcread,
    exiterror, error_result,
    breakflag,
    startup,
    scn,          \* which set of input lines the user types from
    nprompts,     \* input lines read so far
    files,        \* the files in the working directory
    seed,         \* the random number generator
    curmode, first, dataset, comp_a, comp_b, repcnt,   \* compare mode and tally
    reports,      \* not in the program: the mismatch messages and tallies the
                  \* last comp printed
    examined      \* not in the program: the bytes the last comp compared

interp == <<introot, varroot, ctlroot, editroot, nextid, dummyloop>>
device == <<phydrive, disc, wrcalls, rdcalls, handles>>
drive == <<writeprot, currentdrive, drivesize, lastlock>>
buffers == <<writebuffer, readbuffer>>
stats == <<iopwrite, iopread, bcwrite, bcread>>
flags == <<exiterror, error_result, startup>>
user == <<scn, nprompts, linebuffer>>
compare == <<curmode, first, dataset, comp_a, comp_b, repcnt, reports, examined>>
vars == <<pc, r, linep, interp, device, drive, buffers, stats, flags, breakflag, user,
          files, seed, compare>>

\* ----------------------------------------------------------------------
\* The stored program: a list of linestr records
\* [id, label, params, line, looplist]; label "" is a NULL label.
\* ----------------------------------------------------------------------
LineIdx(er, id) == CHOOSE i \in 1..Len(er) : er[i].id = id
HasLine(er, id) == \E i \in 1..Len(er) : er[i].id = id

\* p->line, for the dummyline (linebuffer) or a stored line
Text(er, lb, id) ==
    IF id = 0 THEN lb
    ELSE IF HasLine(er, id) THEN er[LineIdx(er, id)].line
    ELSE <<>>

\* p->next
NextLine(er, id) ==
    IF id = 0 \/ ~HasLine(er, id) THEN NOLINE
    ELSE IF LineIdx(er, id) = Len(er) THEN NOLINE
    ELSE er[LineIdx(er, id) + 1].id

\* a cursor, and the same cursor when it stands behind the last word of its token
Cur(l, c, o) == [lin |-> l, chr |-> c, off |-> o]
Norm(er, lb, c) ==
    LET t == Text(er, lb, c.lin) IN
    IF c.chr <= Len(t) /\ c.off > Len(t[c.chr].args) THEN Cur(c.lin, c.chr + 1, 0)
    ELSE c

\* *linep is the terminating zero
AtEnd(er, lb, c) == c.chr > Len(Text(er, lb, c.lin))
\* *linep is ';'
AtSep(er, lb, c) ==
    /\ ~AtEnd(er, lb, c)
    /\ c.off = 0
    /\ Text(er, lb, c.lin)[c.chr].verb = ";"
\* the token the cursor stands in
TokAt(er, lb, c) == Text(er, lb, c.lin)[c.chr]
\* the cursor behind the whole command the cursor stands in
Past(c) == Cur(c.lin, c.chr + 1, 0)
\* the cursor behind the next k words
Adv(er, lb, c, k) == Norm(er, lb, Cur(c.lin, c.chr, c.off + k))

\* ----------------------------------------------------------------------
\* User variables: a list of uservar records [varstr, val].
\* ----------------------------------------------------------------------
\* the last entry from the root with that name: the oldest binding
fndvarOldest(vr, name) ==
    IF \E i \in 1..Len(vr) : vr[i].varstr = name
    THEN CHOOSE i \in 1..Len(vr) :
            /\ vr[i].varstr = name
            /\ \A j \in (i + 1)..Len(vr) : vr[j].varstr # name
    ELSE 0

\* fndvar: the first entry from the root with that name (its index), 0 if none
fndvar(vr, name) ==
    IF \E i \in 1..Len(vr) : vr[i].varstr = name
    THEN CHOOSE i \in 1..Len(vr) :
            /\ vr[i].varstr = name
            /\ \A j \in 1..(i - 1) : vr[j].varstr # name
    ELSE 0

pushvar(vr, name, val) == <<[varstr |-> name, val |-> val]>> \o vr

\* the pointer to the root entry of the list (NULL for the empty list)
RootPtr(vr) == Len(vr)
\* the index in the list of the entry a pointer points to
PtrIdx(vr, ptr) == Len(vr) - ptr + 1

\* set/for/input: assign to the variable found, or push a new one
AssignVar(vr, name, val) ==
    IF fndvar(vr, name) # 0
    THEN [vr EXCEPT ![fndvar(vr, name)].val = val]
    ELSE pushvar(vr, name, val)

\* ----------------------------------------------------------------------
\* The random number generator: a multiplicative congruential generator,
\* seed * 16807 modulo RANDMOD.  rand64 joins two numbers of rand32; C leaves
\* open which operand of its | is called first, the build decides
\* (RightFirst).  low is rand64() & 0xff.
\* ----------------------------------------------------------------------
rand32(s) == (16807 * s) % RANDMOD
rand64(s, rightfirst) ==
    LET a == rand32(s)
        b == rand32(a)
        hi == IF rightfirst THEN b ELSE a
        lo == IF rightfirst THEN a ELSE b
    IN  [v |-> hi * RANDMOD + lo, low |-> lo % 256, seed |-> b]
\* the next n bytes rand64() & 0xff delivers from the seed s
RECURSIVE RandFill(_, _, _)
RandFill(s, n, rf) ==
    IF n = 0 THEN <<>>
    ELSE <<rand64(s, rf).low>> \o RandFill(rand64(s, rf).seed, n - 1, rf)

\* ----------------------------------------------------------------------
\* Expressions.  C's / and % truncate toward zero.
\* ----------------------------------------------------------------------
Abs(a) == IF a < 0 THEN -a ELSE a
QuotC(a, b) ==
    IF (a < 0) = (b < 0) THEN Abs(a) \div Abs(b) ELSE -(Abs(a) \div Abs(b))
RemC(a, b) == a - b * QuotC(a, b)

\* (int) v
ToInt(v) == ((v + INT_MAX + 1) % (2 * (INT_MAX + 1))) - (INT_MAX + 1)

Ok(v) == [r |-> "ok", v |-> v]
Err == [r |-> "error", v |-> 0]
Bool(b) == IF b THEN 1 ELSE 0

\* getval: a number, a predefined variable, or a user variable
getval(e, vr, ds) ==
    IF e[1] = "num" THEN Ok(e[2])
    ELSE IF e[2] = "drvsiz" THEN Ok(ds)
    ELSE IF e[2] = "secsiz" THEN Ok(SECSIZE)
    ELSE IF e[2] = "bufsiz" THEN Ok(NOSECS)
    ELSE IF fndvar(vr, e[2]) = 0 THEN Err
    ELSE Ok(vr[fndvar(vr, e[2])].val)

\* getfact, getmult, getadd, getparam over the parsed expression: unary
\* signs bind tightest, then * / %, then + -, then one comparison; the left
\* operand is evaluated first and an error ends the evaluation
RECURSIVE getparam(_, _, _)
getparam(e, vr, ds) ==
    IF e[1] \in {"num", "var"} THEN getval(e, vr, ds)
    ELSE IF e[1] = "none" THEN Err
    ELSE IF e[1] = "pos" THEN getparam(e[2], vr, ds)
    ELSE IF e[1] = "neg" THEN
        LET a == getparam(e[2], vr, ds) IN
        IF a.r # "ok" THEN a ELSE Ok(-a.v)
    ELSE
        LET a == getparam(e[2], vr, ds) IN
        IF a.r # "ok" THEN a
        ELSE
            LET b == getparam(e[3], vr, ds) IN
            IF b.r # "ok" THEN b
            ELSE CASE e[1] = "*" -> Ok(a.v * b.v)
                   [] e[1] = "/" -> IF b.v = 0 THEN Err ELSE Ok(QuotC(a.v, b.v))
                   [] e[1] = "%" -> IF b.v = 0 THEN Err ELSE Ok(RemC(a.v, b.v))
                   [] e[1] = "+" -> Ok(a.v + b.v)
                   [] e[1] = "-" -> Ok(a.v - b.v)
                   [] e[1] = ">" -> Ok(Bool(a.v > b.v))
                   [] e[1] = ">=" -> Ok(Bool(a.v >= b.v))
                   [] e[1] = "<" -> Ok(Bool(a.v < b.v))
                   [] e[1] = "<=" -> Ok(Bool(a.v <= b.v))
                   [] e[1] = "=" -> Ok(Bool(a.v = b.v))
                   [] e[1] = "!=" -> Ok(Bool(a.v # b.v))

\* The characters of an expression as it is typed, without spaces and with
\* the parentheses its structure needs.  A name is one element of the text.
DigitChar == <<"0", "1", "2", "3", "4", "5", "6", "7", "8", "9">>
RECURSIVE Digits(_)
Digits(k) ==
    IF k < 10 THEN <<DigitChar[k + 1]>>
    ELSE Digits(k \div 10) \o <<DigitChar[(k % 10) + 1]>>

Level(e) ==
    IF e[1] \in {"*", "/", "%"} THEN 1
    ELSE IF e[1] \in {"+", "-"} THEN 2
    ELSE IF e[1] \in {">", ">=", "<", "<=", "=", "!="} THEN 3
    ELSE 0
OpText(op) ==
    CASE op = ">=" -> <<">", "=">>
      [] op = "<=" -> <<"<", "=">>
      [] op = "!=" -> <<"!", "=">>
      [] OTHER -> <<op>>

\* the text of e, in parentheses where e binds looser than level lev
Wrapped(text, paren) == IF paren THEN <<"(">> \o text \o <<")">> ELSE text
RECURSIVE Within(_, _)
Within(e, lev) ==
    Wrapped(IF e[1] = "num" THEN
                IF e[2] < 0 THEN <<"-">> \o Digits(-e[2]) ELSE Digits(e[2])
            ELSE IF e[1] = "var" THEN <<e[2]>>
            ELSE IF e[1] = "none" THEN <<>>
            ELSE IF e[1] = "pos" THEN <<"+">> \o Within(e[2], 0)
            ELSE IF e[1] = "neg" THEN <<"-">> \o Within(e[2], 0)
            ELSE IF Level(e) = 3 THEN Within(e[2], 2) \o OpText(e[1]) \o Within(e[3], 2)
            ELSE Within(e[2], Level(e)) \o OpText(e[1]) \o Within(e[3], Level(e) - 1),
            Level(e) > lev)
Spell(e) == Within(e, 3)

\* **l, the character under the cursor; "" is the end of the line
Ch(t, l) == IF l >= 1 /\ l <= Len(t) THEN t[l] ELSE ""
isdigit(c) == \E i \in 1..10 : DigitChar[i] = c
Punct == {"", " ", ";", "+", "-", "*", "/", "%", "(", ")", "<", ">", "=", "!"}
isalpha(c) == c \notin Punct /\ ~isdigit(c)

\* getword: skip spaces, then copy the letters and digits that follow
RECURSIVE SkipSpaces(_, _)
SkipSpaces(t, l) == IF Ch(t, l) = " " THEN SkipSpaces(t, l + 1) ELSE l
RECURSIVE CopyWord(_, _, _)
CopyWord(t, l, w) ==
    IF isalpha(Ch(t, l)) \/ isdigit(Ch(t, l))
    THEN CopyWord(t, l + 1, Append(w, Ch(t, l)))
    ELSE [w |-> w, l |-> l]
getword(t, l) == CopyWord(t, SkipSpaces(t, l), <<>>)

\* strtoul(w, NULL, 0): a leading 0 makes the number octal; the conversion
\* stops at the first character that is not a digit of the base
RECURSIVE Convert(_, _, _, _)
Convert(w, i, base, acc) ==
    IF i > Len(w) \/ ~isdigit(w[i]) THEN acc
    ELSE LET d == (CHOOSE k \in 1..10 : DigitChar[k] = w[i]) - 1 IN
         IF d >= base THEN acc ELSE Convert(w, i + 1, base, acc * base + d)
strtoul(w) ==
    IF Len(w) > 1 /\ w[1] = "0" THEN Convert(w, 2, 8, 0) ELSE Convert(w, 1, 10, 0)

\* the value getval finds for the word g it read, and the cursor behind it
Found(res, l) == [r |-> res.r, v |-> res.v, l |-> l]
WordVal(g, vr, ds) ==
    IF g.w = <<>> THEN Found(Err, g.l)
    ELSE IF isalpha(g.w[1]) THEN
        Found(getval(<<"var", IF Len(g.w) = 1 THEN g.w[1] ELSE "">>, vr, ds), g.l)
    ELSE Found(Ok(strtoul(g.w)), g.l)

\* getfact, getmult, getadd and getparam on the text t from the cursor l:
\* the result, the value and the cursor left behind.  f names the function
\* entered; "multloop" and "addloop" are the while loops of getmult and
\* getadd with the value n found so far.  getmult never leaves a '/' under
\* the cursor, so the loop of getadd only ever sees '+' and '-'.
RECURSIVE descent(_, _, _, _, _, _)
\* -a
Negated(a) == IF a.r # "ok" THEN a ELSE Found(Ok(-a.v), a.l)
\* (a), with the cursor k behind the spaces that follow a
Closed(t, a, k) ==
    IF a.r # "ok" THEN a
    ELSE IF Ch(t, k) # ")" THEN Found(Err, k)
    ELSE Found(a, k + 1)
\* the left side a, then the loop f
Then(f, t, a, vr, ds) ==
    IF a.r # "ok" THEN a ELSE descent(f, t, a.l, a.v, vr, ds)
\* n op b, then the loop f again
Joined(f, op, t, n, b, vr, ds) ==
    IF b.r # "ok" THEN b
    ELSE IF op \in {"/", "%"} /\ b.v = 0 THEN Found(Err, b.l)
    ELSE descent(f, t, b.l,
                 CASE op = "*" -> n * b.v
                   [] op = "/" -> QuotC(n, b.v)
                   [] op = "%" -> RemC(n, b.v)
                   [] op = "+" -> n + b.v
                   [] op = "-" -> n - b.v,
                 vr, ds)
\* a c b, or a c= b where eq holds
Tested(a, c, eq, b) ==
    IF b.r # "ok" THEN b
    ELSE Found(Ok(Bool(CASE c = ">" -> IF eq THEN a.v >= b.v ELSE a.v > b.v
                         [] c = "<" -> IF eq THEN a.v <= b.v ELSE a.v < b.v
                         [] c = "=" -> a.v = b.v
                         [] c = "!" -> a.v # b.v)), b.l)
\* the left side a with the character c behind it; eq: the next one is '='
Related(t, a, c, eq, vr, ds) ==
    IF a.r # "ok" THEN a
    ELSE IF c \notin {">", "<", "=", "!"} THEN a
    ELSE IF c = "!" /\ ~eq THEN a
    ELSE Tested(a, c, eq /\ c # "=",
                descent("getadd", t, IF eq /\ c # "=" THEN a.l + 2 ELSE a.l + 1, 0, vr, ds))
Left(t, a, vr, ds) == Related(t, a, Ch(t, a.l), Ch(t, a.l + 1) = "=", vr, ds)

descent(f, t, l, n, vr, ds) ==
    CASE f = "getfact" ->
            IF Ch(t, l) = "+" THEN descent("getfact", t, l + 1, 0, vr, ds)
            ELSE IF Ch(t, l) = "-" THEN Negated(descent("getfact", t, l + 1, 0, vr, ds))
            ELSE IF Ch(t, l) = "(" THEN
                LET a == descent("getparam", t, l + 1, 0, vr, ds) IN
                Closed(t, a, SkipSpaces(t, a.l))
            ELSE WordVal(getword(t, l), vr, ds)
      [] f = "getmult" -> Then("multloop", t, descent("getfact", t, l, 0, vr, ds), vr, ds)
      [] f = "multloop" ->
            IF Ch(t, l) \notin {"*", "/", "%"} THEN Found(Ok(n), l)
            ELSE Joined("multloop", Ch(t, l), t, n,
                        descent("getfact", t, l + 1, 0, vr, ds), vr, ds)
      [] f = "getadd" -> Then("addloop", t, descent("getmult", t, l, 0, vr, ds), vr, ds)
      [] f = "addloop" ->
            IF Ch(t, l) \notin {"+", "-"} THEN Found(Ok(n), l)
            ELSE Joined("addloop", Ch(t, l), t, n,
                        descent("getmult", t, l + 1, 0, vr, ds), vr, ds)
      [] f = "getparam" -> Left(t, descent("getadd", t, l, 0, vr, ds), vr, ds)

getfact(t, l, vr, ds) == descent("getfact", t, l, 0, vr, ds)
getmult(t, l, vr, ds) == descent("getmult", t, l, 0, vr, ds)
getadd(t, l, vr, ds) == descent("getadd", t, l, 0, vr, ds)
getparamAt(t, l, vr, ds) == descent("getparam", t, l, 0, vr, ds)

\* the result and the value, without the cursor
Got(p) == [r |-> p.r, v |-> p.v]
\* getparam called with the cursor on the first character of the text of e,
\* and called with the cursor on the space in front of it
parsed(e, vr, ds) == Got(getparamAt(Spell(e), 1, vr, ds))
spparsed(e, vr, ds) == Got(getparamAt(<<" ">> \o Spell(e), 1, vr, ds))

\* the text of the expression starts with a sign or a parenthesis
RECURSIVE Signed(_)
Signed(e) ==
    IF e[1] = "num" THEN e[2] < 0
    ELSE IF e[1] \in {"var", "none"} THEN FALSE
    ELSE IF e[1] \in {"neg", "pos"} THEN TRUE
    ELSE IF Level(e[2]) > (IF Level(e) = 3 THEN 2 ELSE Level(e)) THEN TRUE
    ELSE Signed(e[2])
\* getparam called with the cursor on the space in front of the expression:
\* getfact sees the space, not the sign or the parenthesis, and getval
\* finds no value
spparam(e, vr, ds) == IF Signed(e) THEN Err ELSE getparam(e, vr, ds)

\* getparam of a word that may be the variable rand or lbarnd, which draw the
\* next number from the generator: the value, and the seed left behind.
\* lbarnd divides by the drive size, and by zero while no drive is selected.
Draw(e, vr, ds, sd, rf, spaced) ==
    IF e = <<"var", "rand">> THEN
        [r |-> "ok", v |-> rand64(sd, rf).v, seed |-> rand64(sd, rf).seed]
    ELSE IF e = <<"var", "lbarnd">> THEN
        IF ds = 0 THEN [r |-> "fault", v |-> 0, seed |-> rand64(sd, rf).seed]
        ELSE [r |-> "ok", v |-> rand64(sd, rf).v % ds, seed |-> rand64(sd, rf).seed]
    ELSE LET v == IF spaced THEN spparam(e, vr, ds) ELSE getparam(e, vr, ds) IN
         [r |-> v.r, v |-> v.v, seed |-> sd]

\* the k-th word behind the verb of a token; a missing word reads as the
\* empty word, which getval rejects ("Invalid value")
Word(tok, k) == IF k >= 1 /\ k <= Len(tok.args) THEN tok.args[k] ELSE <<"none">>
\* getword of a name
Name(tok, k) == IF Word(tok, k)[1] = "var" THEN Word(tok, k)[2] ELSE ""

\* ----------------------------------------------------------------------
\* Interpreter stack: a list of intstk records [curlin, curchr, mark].
\* The fields snap and base are not in the program: snap remembers the
\* variable stack as it was when the level was pushed, base the variable
\* stack as it was when the command that pushed the level began, so that
\* properties can refer to them.
\* ----------------------------------------------------------------------
pushlvl(is, vr, line, cpos) ==
    <<[curlin |-> line, curchr |-> cpos, mark |-> RootPtr(vr), snap |-> vr,
       base |-> vr]>> \o is

\* poplvl's loop: free variables until the stack is empty or its root is the mark
RECURSIVE PopVars(_, _)
PopVars(vr, mark) ==
    IF Len(vr) # 0 /\ RootPtr(vr) # mark THEN PopVars(Tail(vr), mark) ELSE vr

\* the variables poplvl leaves: locals are removed "if present, and we are
\* not in immediate mode"
PopLocals(is, vr) ==
    IF Len(is) > 1 /\ is[1].mark # NULL THEN PopVars(vr, is[1].mark) ELSE vr

\* poplvl on a stack that is not dry
poplvl(is, vr) == [is |-> Tail(is), vr |-> PopLocals(is, vr)]

\* while (introot) poplvl();
RECURSIVE Drain(_, _)
Drain(is, vr) ==
    IF Len(is) = 0 THEN [is |-> is, vr |-> vr]
    ELSE Drain(poplvl(is, vr).is, poplvl(is, vr).vr)

\* fndpgm: the first stored line with that label (its index), 0 if none
fndpgm(er, name) ==
    IF name # "" /\ \E i \in 1..Len(er) : er[i].label = name
    THEN CHOOSE i \in 1..Len(er) :
            /\ er[i].label = name
            /\ \A j \in 1..(i - 1) : er[j].label # name
    ELSE 0

\* ----------------------------------------------------------------------
\* Loop counters: a list of loopcounter records [pos, loopcount].
\* ----------------------------------------------------------------------
\* the entry at the root whatever its position: one counter for the line
CntIdxShared(list, pos) == IF Len(list) # 0 THEN 1 ELSE 0
CntIdx(list, pos) ==
    IF \E i \in 1..Len(list) : list[i].pos = pos
    THEN CHOOSE i \in 1..Len(list) :
            /\ list[i].pos = pos
            /\ \A j \in 1..(i - 1) : list[j].pos # pos
    ELSE 0

\* fndcnt: the list with the entry for pos in it, created with count 0 and
\* pushed at the root when there was none
fndcnt(list, pos) ==
    IF CntIdx(list, pos) # 0 THEN list
    ELSE <<[pos |-> pos, loopcount |-> 0]>> \o list

\* rstlin: every counter of every stored line becomes 0
rstlin(er) ==
    [i \in 1..Len(er) |->
        [er[i] EXCEPT !.looplist =
            [j \in 1..Len(er[i].looplist) |->
                [er[i].looplist[j] EXCEPT !.loopcount = 0]]]]

\* popctl: remove one control level, if there is one
popctl(cs) == IF Len(cs) # 0 THEN Tail(cs) ELSE cs

\* ----------------------------------------------------------------------
\* skipcmd.
\* ----------------------------------------------------------------------
MinOf(S) == CHOOSE x \in S : \A y \in S : x <= y

\* while (**line && **line != ';') (*line)++; if (**line == ';') (*line)++;
SkipRest(er, lb, c) ==
    LET t == Text(er, lb, c.lin)
        from == IF c.off > 0 THEN c.chr + 1 ELSE c.chr
        seps == {j \in from..Len(t) : t[j].verb = ";"}
    IN  IF seps = {} THEN Cur(c.lin, Len(t) + 1, 0)
        ELSE Cur(c.lin, MinOf(seps) + 1, 0)

\* the nesting counts after the verb w
Nest(n, w) ==
    [whl |-> IF w = "while" THEN n.whl + 1
             ELSE IF w = "wend" /\ n.whl > 0 THEN n.whl - 1 ELSE n.whl,
     rep |-> IF w = "repeat" THEN n.rep + 1
             ELSE IF w = "until" /\ n.rep > 0 THEN n.rep - 1 ELSE n.rep,
     for |-> IF w = "for" THEN n.for + 1
             ELSE IF w = "fend" /\ n.for > 0 THEN n.for - 1 ELSE n.for,
     sel |-> IF w = "select" THEN n.sel + 1
             ELSE IF w = "send" /\ n.sel > 0 THEN n.sel - 1 ELSE n.sel]
NoNest == [whl |-> 0, rep |-> 0, for |-> 0, sel |-> 0]

\* the scan from a cursor in front of a command.  The result is r = "ok"
\* with the verb found (fnd) and the cursor behind it, r = "error" when the
\* stored program is exhausted (the interpreter stack has then been flushed),
\* or r = "hang": in immediate mode the outer loop finds the end of the line
\* again and again and never returns.
RECURSIVE SkipScan(_, _, _, _, _, _, _, _, _)
SkipScan(er, lb, c, n, is, vr, cmd, cmd2, cmd3) ==
    IF AtEnd(er, lb, c) THEN
        IF Len(is) > 1 THEN
            IF NextLine(er, is[1].curlin) # NOLINE THEN
                SkipScan(er, lb, Cur(NextLine(er, is[1].curlin), 1, 0), n,
                         [is EXCEPT ![1].curlin = NextLine(er, is[1].curlin)],
                         vr, cmd, cmd2, cmd3)
            ELSE [r |-> "error", fnd |-> 0, line |-> c,
                  is |-> Drain(is, vr).is, vr |-> Drain(is, vr).vr]
        ELSE IF Len(is) = 1 THEN
            [r |-> "hang", fnd |-> 0, line |-> c, is |-> is, vr |-> vr]
        ELSE [r |-> "error", fnd |-> 0, line |-> c, is |-> is, vr |-> vr]
    ELSE
        LET tok == TokAt(er, lb, c)
            w == IF tok.verb = ";" THEN "" ELSE tok.verb
            behind == IF w = "" THEN c ELSE Adv(er, lb, c, 1)
            m == Nest(n, w)
            level0 == m = NoNest
        IN  IF level0 /\ w = cmd THEN
                [r |-> "ok", fnd |-> 1, line |-> behind, is |-> is, vr |-> vr]
            ELSE IF level0 /\ w = cmd2 THEN
                [r |-> "ok", fnd |-> 2, line |-> behind, is |-> is, vr |-> vr]
            ELSE IF level0 /\ w = cmd3 THEN
                [r |-> "ok", fnd |-> 3, line |-> behind, is |-> is, vr |-> vr]
            ELSE SkipScan(er, lb, SkipRest(er, lb, behind), m,
                          is, vr, cmd, cmd2, cmd3)

skipcmd(er, lb, c, is, vr, cmd, cmd2, cmd3) ==
    SkipScan(er, lb, SkipRest(er, lb, c), NoNest, is, vr, cmd, cmd2, cmd3)

\* ----------------------------------------------------------------------
\* enterline: store an input line.  The walk "while (--n && p)" ends on
\* the entry the new line is linked behind (0: it becomes the first line).
\* ----------------------------------------------------------------------
RECURSIVE WalkPost(_, _, _)
WalkPost(n, k, len) ==
    IF n # 0 /\ k < len THEN WalkPost(n - 1, k + 1, len) ELSE k
RECURSIVE Walk(_, _, _)
Walk(n, k, len) ==
    IF n - 1 # 0 /\ k < len THEN Walk(n - 1, k + 1, len) ELSE k

enterline(er, id, ln) ==
    LET k == Walk(ln.num, 0, Len(er))
        new == [id |-> id, label |-> ln.label, params |-> ln.params,
                line |-> ln.body, looplist |-> <<>>]
    IN  SubSeq(er, 1, k) \o <<new>> \o SubSeq(er, k + 1, Len(er))

\* loadfile: the lines of a file entered one after the other (no leading
\* number: n stays -1 and every line is appended)
RECURSIVE loadfile(_, _, _)
loadfile(er, id, file) ==
    IF Len(file) = 0 THEN er
    ELSE loadfile(enterline(er, id, [file[1] EXCEPT !.num = -1]), id + 1, Tail(file))

\* ----------------------------------------------------------------------
\* main: what follows a command that needs no further routing.  nxtcmd
\* executes the line the cursor is in if it is not blank; nxtpgm moves a
\* frame above the immediate one to the next stored line, or flushes the
\* stack behind the last line; the stack is drained before the next prompt.
\* ----------------------------------------------------------------------
RECURSIVE nxtcmd(_, _, _, _, _)
\* nxtpgm, had the end of the program returned to the caller: one frame is
\* popped and the line of the call goes on behind the call
RECURSIVE nxtcmdReturns(_, _, _, _, _)
nxtcmdReturns(er, lb, c, is, vr) ==
    IF ~AtEnd(er, lb, c) THEN [pc |-> "exec", linep |-> c, is |-> is, vr |-> vr]
    ELSE IF Len(is) > 1 /\ NextLine(er, is[1].curlin) # NOLINE THEN
        nxtcmdReturns(er, lb, Cur(NextLine(er, is[1].curlin), 1, 0),
               [is EXCEPT ![1].curlin = NextLine(er, is[1].curlin)], vr)
    ELSE IF Len(is) > 1 /\ is[1].curlin # 0 THEN
        nxtcmdReturns(er, lb, Past(is[2].curchr), poplvl(is, vr).is, poplvl(is, vr).vr)
    ELSE [pc |-> "nxtlin", linep |-> c, is |-> <<>>, vr |-> Drain(is, vr).vr]

nxtcmd(er, lb, c, is, vr) ==
    IF ~AtEnd(er, lb, c) THEN [pc |-> "exec", linep |-> c, is |-> is, vr |-> vr]
    ELSE IF Len(is) > 1 /\ NextLine(er, is[1].curlin) # NOLINE THEN
        nxtcmd(er, lb, Cur(NextLine(er, is[1].curlin), 1, 0),
               [is EXCEPT ![1].curlin = NextLine(er, is[1].curlin)], vr)
    ELSE [pc |-> "nxtlin", linep |-> c, is |-> <<>>, vr |-> Drain(is, vr).vr]

\* ----------------------------------------------------------------------
\* Sector contents.  A buffer and the disc are sequences of sectors counted
\* from 0, a sector is its SECSIZE bytes; byte i of a buffer is byte
\* i % SECSIZE of its sector i / SECSIZE.  Static storage starts out as
\* zeroes.
\* ----------------------------------------------------------------------
\* v >> 24 & 0xff, v >> 16 & 0xff, v >> 8 & 0xff, v & 0xff
Bytes(v) == <<(v \div 16777216) % 256, (v \div 65536) % 256, (v \div 256) % 256, v % 256>>
Filled(v) == [j \in 1..SECSIZE |-> Bytes(v)[((j - 1) % 4) + 1]]
Zeroes == Filled(0)
\* sector k of the write buffer after pattn has filled it
Pattern(pat, v, k, old, rf) ==
    CASE pat = "cnt" -> [j \in 1..SECSIZE |-> (k * SECSIZE + j - 1) % 256]
      [] pat = "dwcnt" ->
            [j \in 1..SECSIZE |-> Bytes((k * SECSIZE + j - 1) \div 4)[((j - 1) % 4) + 1]]
      [] pat = "val" -> Filled(v)
      [] pat = "rand" -> RandFill(42, SECSIZE, rf)
      [] pat = "lba" -> [j \in 1..SECSIZE |-> IF j <= 4 THEN Bytes(v + k)[j] ELSE old[j]]

\* ----------------------------------------------------------------------
\* What the user does: the file discdiag.ini found at startup and the
\* lines typed at the prompt.  A run takes both from one scenario; at each
\* prompt the user types any line of the scenario, and in the scenarios
\* of kind "break" the user presses control-C at any time.
\* ----------------------------------------------------------------------
Scn(kind, par, ini, lines) ==
    [kind |-> kind, par |-> par, ini |-> ini, lines |-> lines, brk |-> kind \in {"break", "race", "left"}]
NoPar == [a |-> 0, b |-> 0, s |-> 0, given |-> FALSE]
\* a line of a file: its label, declared parameters and commands
Proc(lab, ps, b) == Edt(0, lab, ps, b)
\* a line typed at the prompt: commands separated by ';'
Lin(cs) == Exe(Semi(cs))
\* a body that starts with the separator, then commands separated by ';'
Body(cs) == <<SEP>> \o Semi(cs)
\* an integer as the user writes it where no sign may lead: k or 0-k
Lit(k) == IF k < 0 THEN Bin("-", Num(0), Num(-k)) ELSE Num(k)
\* an integer as the user writes it where a sign may lead: k or -k
Sgn(k) == IF k < 0 THEN Neg(Num(-k)) ELSE Num(k)
Incr(x) == Cmd("s", <<Var(x), Bin("+", Var(x), Num(1))>>)
Zero(x) == Cmd("s", <<Var(x), Num(0)>>)

\* write protection and transfers
ScnProt ==
    Scn("prot", NoPar, <<>>,
        << Lin(<<Cmd("drive", <<Num(1)>>)>>),
           Lin(<<Cmd("unprot", <<>>)>>),
           Lin(<<Cmd("pt", <<Var("val"), Num(7), Num(1)>>), Cmd("w", <<Num(0), Num(1)>>)>>),
           Lin(<<Cmd("drive", <<>>), Cmd("w", <<>>)>>),
           Lin(<<Cmd("write", <<Num(9), Num(9)>>)>>),
           Lin(<<Cmd("drive", <<Num(1)>>), Cmd("unprot", <<>>), Cmd("pattn", <<>>),
                 Cmd("write", <<Num(1), Num(2)>>), Cmd("r", <<Num(1), Num(1)>>)>>),
           Lin(<<Cmd("unprot", <<>>), Cmd("drive", <<Var("nodrive")>>)>>) >>)

\* procedures, parameters and variables
ScnCall ==
    Scn("call", NoPar,
        << Proc("greet", <<"n">>, Semi(<<Cmd("echon", <<>>), Cmd("end", <<>>)>>)),
           Proc("proc", <<"n">>, Body(<<Cmd("local", <<Var("t")>>),
                                       Cmd("s", <<Var("g"), Var("n")>>),
                                       Cmd("end", <<>>)>>)),
           Proc("quiet", <<>>, Body(<<Cmd("s", <<Var("q"), Num(1)>>), Cmd("end", <<>>)>>)) >>,
        << Lin(<<Cmd("s", <<Var("a"), Num(1)>>)>>),
           Lin(<<Cmd("greet", <<Num(3)>>)>>),
           Lin(<<Cmd("proc", <<Num(3)>>), Cmd("echo", <<>>)>>),
           Lin(<<Cmd("quiet", <<>>)>>),
           Lin(<<Cmd("bogus", <<>>)>>),
           Lin(<<Cmd("s", <<Var("x"), Num(5)>>)>>),
           Lin(<<Cmd("end", <<>>)>>),
           Lin(<<Cmd("proc", <<Var("nope")>>)>>) >>)

\* an init procedure in discdiag.ini, stored lines typed at the prompt
ScnInit ==
    Scn("init", NoPar,
        << Proc("init", <<>>, Semi(<<Cmd("local", <<Var("tmp")>>), Cmd("drive", <<Num(1)>>)>>)),
           Proc("", <<>>, Semi(<<Cmd("unprot", <<>>)>>)) >>,
        << Lin(<<Cmd("w", <<Num(0), Num(1)>>)>>),
           Edt(1, "first", <<"n">>, Body(<<Cmd("exitonerror", <<>>), Cmd("end", <<>>)>>)),
           Lin(<<Cmd("first", <<Num(1)>>), Cmd("bogus", <<>>)>>),
           Lin(<<Cmd("exit", <<>>)>>) >>)

\* cmds; l N and cmds; lq N, typed and stored; N is par.a, and there is
\* no N when par.given is false
LoopArg(par) == IF par.given THEN <<Sgn(par.a)>> ELSE <<>>
ScnLoop(par) ==
    Scn("loop", par,
        << Proc("run", <<"z">>, Body(<<Zero("c")>>)),
           Proc("", <<>>, Semi(<<Incr("c"), Cmd("l", LoopArg(par))>>)),
           Proc("", <<>>, Semi(<<Cmd("echo", <<>>), Cmd("end", <<>>)>>)) >>,
        << Lin(<<Zero("c")>>),
           Lin(<<Incr("c"), Cmd("lq", LoopArg(par))>>),
           Lin(<<Cmd("run", <<Num(0)>>)>>) >>)
LoopCounts == <<0, 1, 2, 3, INT_MAX, INT_MAX + 2, -1, -2>>
LoopScenarios ==
    [i \in 1..(Len(LoopCounts) + 1) |->
        IF i <= Len(LoopCounts)
        THEN ScnLoop([a |-> LoopCounts[i], b |-> 0, s |-> 0, given |-> TRUE])
        ELSE ScnLoop(NoPar)]

\* for i a b [s] ... fend, typed and stored; the body counts its runs in k
\* and appends the value of i to the decimal digits of t
ForArgs(par) ==
    <<Var("i"), Lit(par.a), Lit(par.b)>> \o (IF par.given THEN <<Sgn(par.s)>> ELSE <<>>)
Trace == Cmd("s", <<Var("t"), Bin("+", Bin("*", Var("t"), Num(10)), Var("i"))>>)
ScnFor(par) ==
    Scn("for", par,
        << Proc("runf", <<"z">>, Body(<<Zero("k"), Zero("t")>>)),
           Proc("", <<>>, Semi(<<Cmd("for", ForArgs(par))>>)),
           Proc("", <<>>, Semi(<<Incr("k"), Trace>>)),
           Proc("", <<>>, Semi(<<Cmd("fend", <<>>), Cmd("echon", <<>>), Cmd("end", <<>>)>>)) >>,
        << Lin(<<Zero("k"), Zero("t"), Cmd("for", ForArgs(par)), Incr("k"), Trace,
                 Cmd("fend", <<>>), Cmd("echo", <<>>)>>),
           Lin(<<Cmd("runf", <<Num(0)>>)>>) >>)
ForStarts == <<-1, 1, 2>>
ForEnds == <<0, 1, 3>>
ForSteps == <<1, 2, -1, -2>>
ForPar(j) ==
    LET a == ForStarts[(j % 3) + 1]
        b == ForEnds[((j \div 3) % 3) + 1]
        k == j \div 9
    IN  IF k = 0 THEN [a |-> a, b |-> b, s |-> 1, given |-> FALSE]
        ELSE [a |-> a, b |-> b, s |-> ForSteps[k], given |-> TRUE]
ForScenarios == [i \in 1..(9 * (Len(ForSteps) + 1)) |-> ScnFor(ForPar(i - 1))]

\* while and wend, and loops whose end is missing
ScnWhile ==
    Scn("while", NoPar,
        << Proc("spin", <<"z">>, Body(<<Cmd("s", <<Var("w"), Var("z")>>),
                                       Cmd("while", <<Var("w")>>),
                                       Cmd("s", <<Var("w"), Bin("-", Var("w"), Num(1))>>),
                                       Cmd("wend", <<>>), Cmd("end", <<>>)>>)),
           Proc("offw", <<"z">>, Body(<<Cmd("while", <<Var("z")>>)>>)),
           Proc("", <<>>, Semi(<<Cmd("echo", <<>>)>>)) >>,
        << Lin(<<Cmd("spin", <<Num(2)>>)>>),
           Lin(<<Cmd("offw", <<Num(0)>>), Cmd("echo", <<>>)>>),
           Lin(<<Cmd("offw", <<Num(1)>>)>>),
           Lin(<<Cmd("while", <<Num(0)>>), Cmd("echo", <<>>), Cmd("wend", <<>>)>>),
           Lin(<<Cmd("while", <<Num(0)>>), Cmd("echo", <<>>)>>),
           Lin(<<Cmd("wend", <<>>)>>) >>)
ScnOff ==
    Scn("off", NoPar,
        << Proc("offf", <<"z">>, Body(<<Cmd("for", <<Var("i"), Num(1), Var("z")>>)>>)),
           Proc("", <<>>, Semi(<<Cmd("echo", <<>>)>>)) >>,
        << Lin(<<Cmd("offf", <<Num(0)>>)>>),
           Lin(<<Cmd("offf", <<Num(1)>>)>>),
           Lin(<<Cmd("fend", <<>>)>>),
           Lin(<<Cmd("for", <<Var("i"), Num(1), Num(0)>>), Cmd("echo", <<>>)>>) >>)

\* control-C while lines are typed and executed
ScnBreak ==
    Scn("break", NoPar,
        << Proc("proc", <<"n">>, Body(<<Cmd("local", <<Var("t")>>), Cmd("end", <<>>)>>)) >>,
        << Lin(<<Cmd("s", <<Var("a"), Num(1)>>), Cmd("echo", <<>>)>>),
           Lin(<<Cmd("s", <<Var("x"), Num(5)>>)>>),
           Lin(<<Cmd("proc", <<Num(3)>>), Cmd("exitonerror", <<>>)>>),
           Lin(<<Cmd("pt", <<Var("val"), Num(1)>>), Cmd("c", <<>>), Cmd("echo", <<>>)>>),
           Lin(<<Cmd("dw", <<>>), Cmd("s", <<Var("d"), Num(1)>>)>>),
           Lin(<<Cmd("dr", <<Num(NOSECS)>>), Cmd("dumpread", <<Num(0)>>), Cmd("dumpwrite", <<Num(NOSECS + 1)>>)>>),
           Lin(<<Cmd("list", <<>>), Cmd("s", <<Var("d"), Num(1)>>)>>) >>)

\* while ... wend and repeat ... until counting down from par.a, typed and
\* stored; the body counts its runs in k, and m tells which loop ran
Decr(x) == Cmd("s", <<Var(x), Bin("-", Var(x), Num(1))>>)
Mark(k) == Cmd("s", <<Var("m"), Num(k)>>)
Start(e) == Cmd("s", <<Var("w"), e>>)
Done == Cmd("until", <<Bin("<", Var("w"), Num(1))>>)
ScnRep(par) ==
    Scn("rep", par,
        << Proc("runw", <<"z">>, Body(<<Mark(1), Zero("k"), Start(Var("z"))>>)),
           Proc("", <<>>, Semi(<<Cmd("while", <<Var("w")>>)>>)),
           Proc("", <<>>, Semi(<<Incr("k"), Decr("w")>>)),
           Proc("", <<>>, Semi(<<Cmd("wend", <<>>), Cmd("echon", <<>>), Cmd("end", <<>>)>>)),
           Proc("runr", <<"z">>, Body(<<Mark(2), Zero("k"), Start(Var("z")),
                                       Cmd("repeat", <<>>)>>)),
           Proc("", <<>>, Semi(<<Incr("k"), Decr("w"), Done, Cmd("echon", <<>>),
                                 Cmd("end", <<>>)>>)) >>,
        << Lin(<<Mark(1), Zero("k"), Start(Num(par.a)), Cmd("while", <<Var("w")>>),
                 Incr("k"), Decr("w"), Cmd("wend", <<>>), Cmd("echo", <<>>)>>),
           Lin(<<Mark(2), Zero("k"), Start(Num(par.a)), Cmd("repeat", <<>>),
                 Incr("k"), Decr("w"), Done, Cmd("echo", <<>>)>>),
           Lin(<<Cmd("runw", <<Num(par.a)>>)>>),
           Lin(<<Cmd("runr", <<Num(par.a)>>)>>),
           Lin(<<Cmd("until", <<Num(1)>>)>>),
           Lin(<<Cmd("repeat", <<>>), Cmd("until", <<Var("nope")>>)>>),
           Lin(<<Cmd("while", <<Num(1)>>), Cmd("until", <<Num(1)>>)>>) >>)
RepCounts == <<0, 1, 2>>
RepScenarios ==
    [i \in 1..Len(RepCounts) |->
        ScnRep([a |-> RepCounts[i], b |-> 0, s |-> 0, given |-> TRUE])]

\* a body appends its digit to the decimal digits of t
Digit(d) == Cmd("s", <<Var("t"), Bin("+", Bin("*", Var("t"), Num(10)), Num(d))>>)
\* a loop inside a loop that is skipped, a select inside a case that is skipped
Flag(x) == Cmd("s", <<Var(x), Num(1)>>)
ScnNest ==
    Scn("nest", NoPar,
        << Proc("outer", <<"z">>, Body(<<Cmd("while", <<Var("z")>>)>>)),
           Proc("", <<>>, Semi(<<Cmd("while", <<Num(1)>>), Flag("x"), Cmd("wend", <<>>)>>)),
           Proc("", <<>>, Semi(<<Flag("y"), Cmd("wend", <<>>)>>)),
           Proc("", <<>>, Semi(<<Cmd("echon", <<>>), Cmd("end", <<>>)>>)) >>,
        << Lin(<<Cmd("while", <<Num(0)>>), Cmd("while", <<Num(1)>>), Flag("x"),
                 Cmd("wend", <<>>), Flag("y"), Cmd("wend", <<>>), Cmd("echo", <<>>)>>),
           Lin(<<Cmd("outer", <<Num(0)>>)>>),
           Lin(<<Cmd("while", <<Num(0)>>), Cmd("for", <<Var("i"), Num(1), Num(2)>>),
                 Flag("x"), Cmd("fend", <<>>), Flag("y"), Cmd("wend", <<>>),
                 Cmd("echo", <<>>)>>),
           Lin(<<Zero("t"), Cmd("select", <<Num(1)>>), Cmd("case", <<Num(2)>>),
                 Cmd("select", <<Num(5)>>), Cmd("case", <<Num(5)>>), Digit(5),
                 Cmd("send", <<>>), Cmd("case", <<Num(1)>>), Digit(1),
                 Cmd("send", <<>>), Cmd("echo", <<>>)>>) >>)

\* select par.a with the cases 1 2 and 3, with a default when par.given,
\* typed and stored
Otherwise(par) == IF par.given THEN <<Cmd("default", <<>>), Digit(9)>> ELSE <<>>
ScnSel(par) ==
    Scn("sel", par,
        << Proc("runs", <<"z">>, Body(<<Zero("t"), Cmd("select", <<Var("z")>>)>>)),
           Proc("", <<>>, Semi(<<Cmd("case", <<Num(1), Num(2)>>)>>)),
           Proc("", <<>>, Semi(<<Digit(1)>>)),
           Proc("", <<>>, Semi(<<Cmd("case", <<Num(3)>>), Digit(3)>>)) >>
        \o (IF par.given THEN <<Proc("", <<>>, Semi(Otherwise(par)))>> ELSE <<>>)
        \o << Proc("", <<>>, Semi(<<Cmd("send", <<>>), Cmd("echon", <<>>),
                                    Cmd("end", <<>>)>>)) >>,
        << Lin(<<Zero("t"), Cmd("select", <<Num(par.a)>>), Cmd("case", <<Num(1), Num(2)>>),
                 Digit(1), Cmd("case", <<Num(3)>>), Digit(3)>> \o Otherwise(par)
               \o <<Cmd("send", <<>>), Cmd("echo", <<>>)>>),
           Lin(<<Cmd("runs", <<Num(par.a)>>)>>),
           Lin(<<Cmd("select", <<Var("nope")>>)>>),
           Lin(<<Cmd("select", <<Num(1)>>), Cmd("case", <<>>), Cmd("send", <<>>)>>),
           Lin(<<Cmd("select", <<Num(1)>>), Cmd("case", <<Num(1), Var("nope")>>),
                 Cmd("send", <<>>)>>) >>)
SelValues == <<1, 2, 3, 4>>
SelScenarios ==
    [i \in 1..(2 * Len(SelValues)) |->
        ScnSel([a |-> SelValues[((i - 1) % Len(SelValues)) + 1], b |-> 0, s |-> 0,
                given |-> i > Len(SelValues)])]

\* edits of the program store, and the store saved and loaded
Say(k) == <<Cmd("echo", <<Num(k)>>)>>
ScnEdit ==
    Scn("edit", NoPar,
        << Proc("a", <<"p", "q">>, Say(0)),
           Proc("", <<>>, Semi(<<Cmd("echo", <<>>), Cmd("end", <<>>)>>)) >>,
        << Edt(1, "one", <<>>, Say(1)),
           Edt(2, "", <<>>, Say(2)),
           Edt(3, "three", <<"n">>, Say(3)),
           Edt(5, "zap", <<>>, Body(<<Cmd("delt", <<Num(3)>>)>>)),
           Lin(<<Cmd("delt", <<Num(0)>>)>>),
           Lin(<<Cmd("delt", <<Num(1)>>)>>),
           Lin(<<Cmd("delt", <<Num(2)>>)>>),
           Lin(<<Cmd("delt", <<Num(3)>>)>>),
           Lin(<<Cmd("delt", <<Lit(-1)>>)>>),
           Lin(<<Cmd("delt", <<Var("nope")>>)>>),
           Lin(<<Cmd("zap", <<>>)>>),
           Lin(<<Cmd("save", <<Var("f")>>)>>),
           Lin(<<Cmd("save", <<>>)>>),
           Lin(<<Cmd("load", <<Var("f")>>)>>),
           Lin(<<Cmd("load", <<Var("g")>>)>>) >>)


\* pattn, the write buffer copied to the read buffer by way of the disc, and
\* comp of the same pattern, value and length in each compare mode
PattNames == <<"cnt", "dwcnt", "val", "rand", "lba">>
PattValues == <<Num(1), Num(300), Lit(-1), Var("rand")>>
PattLens == <<0, 1, NOSECS>>
Fill(p, v, n) == Cmd("pt", <<Var(p), v, Num(n)>>)
Check(p, v, n) == Cmd("c", <<Var(p), v, Num(n)>>)
Mode(m) == Cmd("cm", <<Var(m)>>)
ScnPatt(par) ==
    LET p == PattNames[par.a]
        v == PattValues[par.b]
        n == PattLens[par.s]
    IN  Scn("patt", par, <<>>,
            << Lin(<<Cmd("drive", <<Num(1)>>), Cmd("unprot", <<>>)>>),
               Lin(<<Fill(p, v, n), Cmd("w", <<Num(0), Num(n)>>), Cmd("r", <<Num(0), Num(n)>>)>>),
               Lin(<<Check(p, v, n), Cmd("echo", <<>>)>>),
               Lin(<<Mode("all"), Check(p, v, n), Cmd("echo", <<>>)>>),
               Lin(<<Mode("fail"), Cmd("comp", <<Var(p), v, Num(n)>>), Cmd("echo", <<>>)>>) >>)
PattPar(i) ==
    [a |-> (i % Len(PattNames)) + 1,
     b |-> ((i \div Len(PattNames)) % Len(PattValues)) + 1,
     s |-> (i \div (Len(PattNames) * Len(PattValues))) + 1,
     given |-> FALSE]
PattScenarios ==
    [i \in 1..(Len(PattNames) * Len(PattValues) * Len(PattLens)) |-> ScnPatt(PattPar(i - 1))]


\* comp against a read buffer that differs: the read buffer holds val 257 and
\* the write buffer cnt, then sector 0 of both holds dwcnt
CompNames == PattNames \o <<"buffs">>
CompModes == <<"one", "all", "fail">>
ScnMiss(par) ==
    LET p == CompNames[par.a]
        n == PattLens[par.s]
    IN  Scn("miss", par, <<>>,
            << Lin(<<Cmd("drive", <<Num(1)>>), Cmd("unprot", <<>>),
                     Fill("val", Num(257), NOSECS),
                     Cmd("w", <<Num(0), Num(NOSECS)>>), Cmd("r", <<Num(0), Num(NOSECS)>>),
                     Cmd("pt", <<Var("cnt")>>), Mode(CompModes[par.b])>>),
               Lin(<<Check(p, Num(0), n), Cmd("echo", <<>>)>>),
               Lin(<<Cmd("c", <<Var(p)>>), Cmd("c", <<>>)>>),
               Lin(<<Cmd("drive", <<Num(1)>>), Cmd("unprot", <<>>),
                     Fill("dwcnt", Num(0), 1),
                     Cmd("w", <<Num(0), Num(1)>>), Cmd("r", <<Num(0), Num(1)>>),
                     Check("buffs", Num(0), 1), Cmd("comp", <<Var("buffs")>>)>>) >>)
MissPar(i) ==
    [a |-> (i % Len(CompNames)) + 1,
     b |-> ((i \div Len(CompNames)) % Len(CompModes)) + 1,
     s |-> (i \div (Len(CompNames) * Len(CompModes))) + 1,
     given |-> FALSE]
MissScenarios ==
    [i \in 1..(Len(CompNames) * Len(CompModes) * Len(PattLens)) |-> ScnMiss(MissPar(i - 1))]
\* comp and compmode given what they refuse
ScnRefuse ==
    Scn("refuse", NoPar, <<>>,
        << Lin(<<Cmd("pt", <<Var("val"), Num(1)>>), Mode("fail"), Cmd("c", <<>>)>>),
           Lin(<<Cmd("pt", <<Var("val"), Num(1)>>), Mode("all"), Cmd("c", <<>>), Cmd("echo", <<>>)>>),
           Lin(<<Cmd("c", <<Var("nope")>>)>>),
           Lin(<<Cmd("c", <<Var("val"), Var("nope")>>)>>),
           Lin(<<Cmd("c", <<Var("val"), Num(1), Var("nope")>>)>>),
           Lin(<<Cmd("c", <<Var("val"), Num(1), Lit(-1)>>), Cmd("echo", <<>>)>>),
           Lin(<<Cmd("c", <<Var("val"), Num(1), Num(NOSECS + 1)>>)>>),
           Lin(<<Cmd("cm", <<Var("nope")>>)>>),
           Lin(<<Cmd("compmode", <<>>)>>) >>)


\* rand and lbarnd drawn around pattn and comp, in a build that calls the
\* left operand of rand64 first and in one that calls the right one first
Rnd(x) == Cmd("s", <<Var(x), Var("rand")>>)
ScnRnd(par) ==
    Scn("rnd", par, <<>>,
        << Lin(<<Cmd("drive", <<Num(1)>>), Rnd("a"), Cmd("pt", <<Var("rand"), Num(0), Num(1)>>),
                 Rnd("b"), Check("rand", Num(0), 1), Cmd("s", <<Var("c"), Var("lbarnd")>>),
                 Cmd("echo", <<>>)>>),
           Lin(<<Rnd("a"), Mode("fail"), Cmd("pattn", <<Var("rand")>>), Cmd("c", <<Var("rand")>>)>>),
           Lin(<<Rnd("a"), Cmd("pt", <<Var("nope")>>)>>),
           Lin(<<Rnd("a"), Cmd("c", <<Var("val"), Var("nope")>>)>>),
           Lin(<<Cmd("srand", <<>>), Cmd("pt", <<Var("val"), Var("rand"), Var("nope")>>)>>),
           Lin(<<Rnd("a"), Cmd("pt", <<Var("val"), Var("rand")>>), Cmd("c", <<Var("val"), Var("rand")>>),
                 Cmd("c", <<Var("nope")>>)>>),
           Lin(<<Cmd("s", <<Var("e"), Var("lbarnd")>>)>>) >>)
RndScenarios == <<ScnRnd([NoPar EXCEPT !.given = FALSE]), ScnRnd([NoPar EXCEPT !.given = TRUE])>>


\* commands that fail and commands followed by a word they do not read,
\* with exitonerror on and off, and exit
ScnErr ==
    Scn("err", NoPar,
        << Proc("bad", <<>>, Body(<<Cmd("nope", <<>>), Cmd("s", <<Var("y"), Num(1)>>)>>)),
           Proc("", <<>>, Semi(<<Cmd("s", <<Var("z"), Num(1)>>), Cmd("end", <<>>)>>)) >>,
        << Lin(<<Cmd("nope", <<>>), Cmd("s", <<Var("x"), Num(1)>>)>>),
           Lin(<<Cmd("unprot", <<Num(1)>>), Cmd("s", <<Var("x"), Num(1)>>)>>),
           Lin(<<Cmd("bad", <<>>), Cmd("s", <<Var("x"), Num(1)>>)>>),
           Lin(<<Cmd("exitonerror", <<>>), Cmd("unprot", <<Num(1)>>), Cmd("s", <<Var("x"), Num(1)>>)>>),
           Lin(<<Cmd("exitonerror", <<>>), Cmd("s", <<Var("v"), Num(1)>>)>>),
           Lin(<<Cmd("s", <<Var("v"), Num(2)>>), Cmd("exit", <<>>), Cmd("s", <<Var("x"), Num(1)>>)>>),
           Lin(<<Cmd("exit", <<>>)>>),
           Lin(<<Cmd("s", <<Var("u"), Num(1)>>), Cmd("end", <<>>), Cmd("s", <<Var("x"), Num(1)>>)>>) >>)


\* lines that run until the break: l and lq without a count, u 0,
\* while 1 ... wend, and a loop around a dump
ScnSpin ==
    Scn("break", NoPar, <<>>,
        << Lin(<<Cmd("echo", <<>>), Cmd("l", <<>>)>>),
           Lin(<<Cmd("echo", <<>>), Cmd("lq", <<>>)>>),
           Lin(<<Cmd("u", <<Num(0)>>)>>),
           Lin(<<Cmd("s", <<Var("n"), Num(1)>>), Cmd("u", <<Var("n")>>), Cmd("u", <<Var("nope")>>)>>),
           Lin(<<Cmd("while", <<Num(1)>>), Cmd("echo", <<>>), Cmd("wend", <<>>)>>),
           Lin(<<Cmd("dw", <<>>), Cmd("l", <<>>)>>),
           Lin(<<Cmd("exitonerror", <<>>), Cmd("echo", <<>>), Cmd("l", <<>>)>>) >>)

\* expressions: precedence, parentheses and signs in front of and inside
\* a parameter, division by zero, and a call whose second parameter fails
ScnExpr ==
    Scn("expr", NoPar,
        << Proc("two", <<"a", "b">>,
                Body(<<Cmd("s", <<Var("w"), Bin("-", Var("a"), Var("b"))>>), Cmd("end", <<>>)>>)) >>,
        << Lin(<<Cmd("s", <<Var("x"), Num(5)>>), Cmd("s", <<Var("y"), Num(7)>>),
                 Cmd("s", <<Var("z"), Bin("+", Var("x"), Bin("*", Var("y"), Num(2)))>>)>>),
           Lin(<<Cmd("s", <<Var("z"), Bin("-", Bin("*", Num(2), Bin("+", Var("x"), Num(1))),
                                               Bin("/", Var("x"), Neg(Num(2))))>>),
                 Cmd("s", <<Var("z"), Bin("<=", Var("x"), Bin("-", Var("y"), Pos(Num(2))))>>)>>),
           Lin(<<Cmd("s", <<Var("z"), Bin("*", Bin("+", Var("x"), Var("y")), Num(2))>>)>>),
           Lin(<<Cmd("s", <<Var("z"), Neg(Var("x"))>>)>>),
           Lin(<<Cmd("s", <<Var("x"), Bin("/", Var("x"), Num(0))>>),
                 Cmd("s", <<Var("z"), Num(1)>>)>>),
           Lin(<<Cmd("s", <<Var("x"), Bin("%", Num(12), Bin("-", Var("x"), Var("x")))>>)>>),
           Lin(<<Cmd("two", <<Num(10), Bin("/", Num(1), Num(0))>>)>>),
           Lin(<<Cmd("two", <<Num(10), Num(3)>>)>>) >>)

\* a procedure on the last stored line that has no end, called from the
\* prompt and from another procedure
ScnFall ==
    Scn("fall", NoPar,
        << Proc("outer", <<>>, Body(<<Cmd("inner", <<>>), Cmd("s", <<Var("a"), Num(1)>>),
                                      Cmd("end", <<>>)>>)),
           Proc("inner", <<>>, Body(<<Cmd("s", <<Var("b"), Num(1)>>)>>)) >>,
        << Lin(<<Cmd("s", <<Var("a"), Num(0)>>), Cmd("s", <<Var("b"), Num(0)>>),
                 Cmd("s", <<Var("c"), Num(0)>>)>>),
           Lin(<<Cmd("outer", <<>>), Cmd("s", <<Var("c"), Num(1)>>)>>),
           Lin(<<Cmd("inner", <<>>), Cmd("s", <<Var("c"), Num(1)>>)>>) >>)

\* loops left by an error inside the body, and closers typed afterwards
ScnStale ==
    Scn("stale", NoPar, <<>>,
        << Lin(<<Cmd("repeat", <<>>), Cmd("for", <<Var("i"), Num(1), Num(2)>>),
                 Cmd("nope", <<>>)>>),
           Lin(<<Cmd("wend", <<>>), Cmd("echo", <<>>)>>),
           Lin(<<Cmd("while", <<Num(1)>>), Cmd("repeat", <<>>), Cmd("nope", <<>>)>>),
           Lin(<<Cmd("fend", <<>>)>>),
           Lin(<<Cmd("until", <<Num(1)>>)>>) >>)

\* well-nested loops on one line: bodies that are entered, loops that are
\* never entered around a loop of another kind, and (ScnBalSkip) a while
\* that is never entered around another while, inside a loop that runs
ScnBal ==
    Scn("bal", NoPar, <<>>,
        << Lin(<<Cmd("s", <<Var("n"), Num(2)>>), Cmd("while", <<Var("n")>>),
                 Cmd("s", <<Var("n"), Bin("-", Var("n"), Num(1))>>),
                 Cmd("repeat", <<>>), Cmd("echo", <<>>), Cmd("until", <<Num(1)>>),
                 Cmd("wend", <<>>), Cmd("echo", <<>>)>>),
           Lin(<<Cmd("for", <<Var("i"), Num(1), Num(2)>>), Cmd("s", <<Var("m"), Num(1)>>),
                 Cmd("while", <<Var("m")>>), Cmd("s", <<Var("m"), Bin("-", Var("m"), Num(1))>>),
                 Cmd("wend", <<>>), Cmd("fend", <<>>), Cmd("echo", <<>>)>>),
           Lin(<<Cmd("while", <<Num(0)>>), Cmd("for", <<Var("i"), Num(1), Num(2)>>),
                 Cmd("echo", <<>>), Cmd("fend", <<>>), Cmd("wend", <<>>), Cmd("echo", <<>>)>>),
           Lin(<<Cmd("for", <<Var("i"), Num(2), Num(1)>>), Cmd("repeat", <<>>),
                 Cmd("echo", <<>>), Cmd("until", <<Num(1)>>), Cmd("fend", <<>>),
                 Cmd("echo", <<>>)>>) >>)
ScnBalSkip ==
    Scn("balskip", NoPar, <<>>,
        << Lin(<<Cmd("s", <<Var("n"), Num(1)>>), Cmd("while", <<Var("n")>>),
                 Cmd("s", <<Var("n"), Bin("-", Var("n"), Num(1))>>),
                 Cmd("while", <<Num(0)>>), Cmd("while", <<Num(1)>>), Cmd("echo", <<>>),
                 Cmd("wend", <<>>), Cmd("echo", <<>>), Cmd("wend", <<>>),
                 Cmd("echo", <<>>), Cmd("wend", <<>>), Cmd("echo", <<>>)>>),
           Lin(<<Cmd("echo", <<>>)>>) >>)


\* a for loop whose body changes the variables its end and its step name
ScnVary ==
    Scn("vary", NoPar, <<>>,
        << Lin(<<Cmd("s", <<Var("e"), Num(3)>>), Cmd("s", <<Var("z"), Num(1)>>),
                 Zero("k"),
                 Cmd("for", <<Var("i"), Num(1), Var("e"), Var("z")>>),
                 Incr("k"),
                 Cmd("s", <<Var("e"), Num(2)>>), Cmd("s", <<Var("z"), Num(2)>>),
                 Cmd("fend", <<>>), Cmd("echo", <<>>)>>) >>)


\* two loop verbs on one typed line and on two lines of a stored program
ScnTwo ==
    Scn("two", NoPar,
        << Proc("pair", <<>>, Body(<<Zero("c"), Zero("d")>>)),
           Proc("", <<>>, Semi(<<Incr("c"), Cmd("l", <<Num(2)>>)>>)),
           Proc("", <<>>, Semi(<<Incr("d"), Cmd("lq", <<Num(2)>>)>>)),
           Proc("", <<>>, Semi(<<Cmd("echon", <<>>), Cmd("end", <<>>)>>)) >>,
        << Lin(<<Zero("a"), Zero("b")>>),
           Lin(<<Incr("a"), Cmd("l", <<Num(2)>>), Incr("b"), Cmd("lq", <<Num(2)>>),
                 Cmd("echo", <<>>)>>),
           Lin(<<Cmd("pair", <<>>)>>) >>)


\* if c, typed and in a stored program, with c zero, not zero and in error
ScnIf ==
    Scn("if", NoPar,
        << Proc("cond", <<"c">>,
                Body(<<Zero("u"), Zero("w"), Cmd("if", <<Var("c")>>),
                       Cmd("s", <<Var("u"), Num(1)>>)>>)),
           Proc("", <<>>, Semi(<<Cmd("s", <<Var("w"), Num(1)>>), Cmd("echon", <<>>),
                                 Cmd("end", <<>>)>>)) >>,
        << Lin(<<Cmd("cond", <<Num(0)>>)>>),
           Lin(<<Cmd("cond", <<Num(2)>>)>>),
           Lin(<<Zero("v"), Cmd("if", <<Num(0)>>), Cmd("s", <<Var("v"), Num(1)>>)>>),
           Lin(<<Zero("t"), Cmd("if", <<Num(2)>>), Cmd("s", <<Var("t"), Num(1)>>),
                 Cmd("echo", <<>>)>>),
           Lin(<<Cmd("if", <<Bin("/", Num(1), Num(0))>>), Cmd("echo", <<>>)>>) >>)


\* set and local on a name that is bound already, typed and in a procedure
ScnLocal ==
    Scn("local", NoPar,
        << Proc("shade", <<"n">>,
                Body(<<Cmd("local", <<Var("x")>>), Cmd("s", <<Var("y"), Var("x")>>),
                       Cmd("s", <<Var("x"), Num(5)>>), Cmd("s", <<Var("z"), Var("x")>>),
                       Cmd("echon", <<>>), Cmd("end", <<>>)>>)) >>,
        << Lin(<<Cmd("s", <<Var("x"), Num(7)>>), Cmd("shade", <<Num(1)>>)>>),
           Lin(<<Cmd("local", <<Var("x")>>), Cmd("s", <<Var("w"), Var("x")>>),
                 Cmd("s", <<Var("x"), Num(3)>>), Cmd("echo", <<>>)>>),
           Lin(<<Incr("x")>>) >>)


\* read, write and pattn given sector numbers and counts at and beyond the
\* ends of the device and of the buffers
ScnEdge ==
    Scn("edge", NoPar, <<>>,
        << Lin(<<Cmd("drive", <<Num(1)>>), Cmd("unprot", <<>>)>>),
           Lin(<<Cmd("pt", <<Var("val"), Num(1), Num(NOSECS + 1)>>), Cmd("echo", <<>>)>>),
           Lin(<<Cmd("r", <<Num(0), Num(0)>>), Cmd("echo", <<>>)>>),
           Lin(<<Cmd("r", <<Lit(-1)>>)>>),
           Lin(<<Cmd("w", <<Num(0), Lit(-1)>>), Cmd("echon", <<>>)>>),
           Lin(<<Cmd("r", <<Num(SIMSEC), Num(1)>>)>>),
           Lin(<<Cmd("r", <<Num(0), Num(NOSECS + 1)>>)>>) >>)


\* lines typed while control-C is pressed at any time, seen statement by
\* statement in chkbrk
ScnRace ==
    Scn("race", NoPar, <<>>,
        << Lin(<<Cmd("s", <<Var("a"), Num(1)>>), Cmd("echo", <<>>)>>),
           Lin(<<Zero("c"), Incr("c"), Cmd("lq", <<Num(2)>>)>>),
           Lin(<<Cmd("exitonerror", <<>>), Cmd("echo", <<>>)>>),
           Lin(<<Cmd("nope", <<>>), Cmd("echo", <<>>)>>) >>)


\* loop bodies left by an error, by a break, by a stop and by the end of a
\* procedure, and a closer typed on a later line
ScnLeft ==
    Scn("left", NoPar,
        << Proc("quit", <<>>, Body(<<Cmd("repeat", <<>>), Cmd("end", <<>>)>>)) >>,
        << Lin(<<Cmd("repeat", <<>>), Cmd("nope", <<>>)>>),
           Lin(<<Cmd("until", <<Num(1)>>), Cmd("echo", <<>>)>>),
           Lin(<<Cmd("quit", <<>>), Cmd("echon", <<>>)>>),
           Lin(<<Cmd("repeat", <<>>), Cmd("dw", <<>>), Cmd("until", <<Num(0)>>)>>) >>)

Scenarios ==
    <<ScnProt, ScnCall, ScnInit, ScnWhile, ScnOff, ScnBreak, ScnNest, ScnEdit>>
        \o LoopScenarios \o ForScenarios \o RepScenarios \o SelScenarios
        \o PattScenarios \o MissScenarios \o <<ScnRefuse>> \o RndScenarios
        \o <<ScnErr, ScnSpin, ScnExpr, ScnFall, ScnStale, ScnBal, ScnBalSkip, ScnVary, ScnTwo, ScnIf, ScnLocal, ScnEdge, ScnRace, ScnLeft>>

\* ----------------------------------------------------------------------
\* Files: the names the user saves to and loads from, and a file that is
\* not there.  The text of a file is a sequence of lines.
\* ----------------------------------------------------------------------
FileNames == {"f", "g"}
NoFile == [exists |-> FALSE, text |-> <<>>]

\* ----------------------------------------------------------------------
\* Startup: main up to the label nxtlin.
\* ----------------------------------------------------------------------
Init ==
    /\ scn \in 1..Len(Scenarios)
    /\ pc = "nxtlin"
    /\ r = "ok"
    /\ linebuffer = <<>>
    /\ linep = Cur(0, 1, 0)
    /\ introot = <<>>
    /\ varroot = <<>>
    /\ ctlroot = <<>>
    /\ editroot = loadfile(<<>>, 1, Scenarios[scn].ini)
    /\ nextid = Len(Scenarios[scn].ini) + 1
    /\ dummyloop = <<>>
    /\ writeprot = TRUE
    /\ lastlock = "start"
    /\ currentdrive = -1
    /\ drivesize = 0
    /\ phydrive = -1
    /\ handles = 0
    /\ disc = [s \in 0..(SIMSEC - 1) |-> Zeroes]
    /\ wrcalls = 0
    /\ rdcalls = 0
    /\ writebuffer = [s \in 0..(NOSECS - 1) |-> Zeroes]
    /\ readbuffer = [s \in 0..(NOSECS - 1) |-> Zeroes]
    /\ iopwrite = 0
    /\ iopread = 0
    /\ bcwrite = 0
    /\ bcread = 0
    /\ exiterror = FALSE
    /\ error_result = FALSE
    /\ breakflag = FALSE
    /\ startup = TRUE
    /\ nprompts = 0
    /\ files = [f \in FileNames |-> NoFile]
    /\ seed = 1
    /\ curmode = "one"
    /\ first = FALSE
    /\ dataset = FALSE
    /\ comp_a = 0
    /\ comp_b = 0
    /\ repcnt = 0
    /\ reports = <<>>
    /\ examined = 0

\* ----------------------------------------------------------------------
\* The signal handler: control-C raises the break flag.
\* ----------------------------------------------------------------------
ctlchandler ==
    /\ Scenarios[scn].brk
    /\ pc \in {"nxtlin", "exec", "ret"}
    /\ ~breakflag
    /\ breakflag' = TRUE
    /\ UNCHANGED <<pc, r, linep, interp, device, drive, buffers, stats, flags, user,
                   files, seed, compare>>

\* ----------------------------------------------------------------------
\* main, from the label nxtlin to the first command of the line: push the
\* immediate level, reset the counters, run init at startup or else prompt
\* and read a line; a line with a leading number is stored, any other line
\* is executed.
\* ----------------------------------------------------------------------
main_init ==
    /\ pc = "nxtlin"
    /\ startup
    /\ fndpgm(editroot, "init") # 0
    /\ LET fp == editroot[fndpgm(editroot, "init")]
           er == rstlin(editroot)
           is1 == pushlvl(introot, varroot, 0, Cur(0, 1, 0))
           is2 == pushlvl(is1, varroot, fp.id, Cur(fp.id, 1, 0))
           n == nxtcmd(er, linebuffer, Cur(fp.id, 1, 0), is2, varroot)
       IN  /\ dummyloop' = <<>>
           /\ editroot' = er
           /\ introot' = n.is
           /\ varroot' = n.vr
           /\ linep' = n.linep
           /\ pc' = n.pc
    /\ iopwrite' = 0 /\ iopread' = 0 /\ bcwrite' = 0 /\ bcread' = 0
    /\ startup' = FALSE
    /\ UNCHANGED <<r, ctlroot, nextid, device, drive, buffers, exiterror,
                   error_result, breakflag, user,
                   files, seed, compare>>

\* the control stack main finds at nxtlin, had the label cleared it
Cleared(cs) == <<>>
\* the control stack main finds at nxtlin: what the last line left, since
\* ctlroot is assigned by main before the loop only
LeftOver(cs) == cs

main_nxtlin ==
    /\ pc = "nxtlin"
    /\ ~(startup /\ fndpgm(editroot, "init") # 0)
    /\ nprompts < MaxPrompts
    /\ \E k \in 1..Len(Scenarios[scn].lines) :
        LET ln == Scenarios[scn].lines[k]
            er == rstlin(editroot)
            is1 == pushlvl(introot, varroot, 0, Cur(0, 1, 0))
            n == nxtcmd(er, ln.body, Cur(0, 1, 0), is1, varroot)
        IN  /\ linebuffer' = ln.body
            /\ dummyloop' = <<>>
            /\ breakflag' = FALSE
            /\ IF breakflag THEN
                    \* a break during line entry
                    /\ pc' = IF exiterror THEN "exit" ELSE "nxtlin"
                    /\ introot' = is1
                    /\ editroot' = er
                    /\ linep' = Cur(0, 1, 0)
                    /\ UNCHANGED <<varroot, nextid, stats>>
               ELSE
                    /\ iopwrite' = 0 /\ iopread' = 0 /\ bcwrite' = 0 /\ bcread' = 0
                    /\ IF ln.edit THEN
                            /\ editroot' = enterline(er, nextid, ln)
                            /\ nextid' = nextid + 1
                            /\ introot' = <<>>
                            /\ varroot' = Drain(is1, varroot).vr
                            /\ linep' = Cur(0, 1, 0)
                            /\ pc' = "nxtlin"
                       ELSE
                            /\ editroot' = er
                            /\ introot' = n.is
                            /\ varroot' = n.vr
                            /\ linep' = n.linep
                            /\ pc' = n.pc
                            /\ UNCHANGED nextid
    /\ startup' = FALSE
    /\ nprompts' = nprompts + 1
    /\ ctlroot' = LeftOver(ctlroot)
    /\ UNCHANGED <<r, device, drive, buffers, exiterror, error_result, scn,
                   files, seed, compare>>

\* ----------------------------------------------------------------------
\* main, behind the call of exec: route on the result, check the break,
\* demand the command separator, go on with the next command.
\* ----------------------------------------------------------------------
main_route ==
    /\ pc = "ret"
    /\ error_result' = (r = "error")
    /\ IF r = "exit" THEN
            /\ pc' = "exit"
            /\ UNCHANGED <<linep, introot, varroot, breakflag>>
       ELSE IF r = "stop" THEN
            /\ pc' = "nxtlin"
            /\ UNCHANGED <<linep, introot, varroot, breakflag>>
       ELSE IF r = "error" THEN
            /\ pc' = IF exiterror THEN "exit" ELSE "nxtlin"
            /\ UNCHANGED <<linep, introot, varroot, breakflag>>
       ELSE IF breakflag THEN
            /\ breakflag' = FALSE
            /\ pc' = IF exiterror THEN "exit" ELSE "nxtlin"
            /\ UNCHANGED <<linep, introot, varroot>>
       ELSE IF r # "restart" /\ ~AtEnd(editroot, linebuffer, linep)
                             /\ ~AtSep(editroot, linebuffer, linep) THEN
            \* "Invalid command termination"
            /\ pc' = "nxtlin"
            /\ UNCHANGED <<linep, introot, varroot, breakflag>>
       ELSE
            LET c == IF r # "restart" /\ AtSep(editroot, linebuffer, linep)
                     THEN Past(linep) ELSE linep
                n == nxtcmd(editroot, linebuffer, c, introot, varroot)
            IN  /\ pc' = n.pc
                /\ linep' = n.linep
                /\ introot' = n.is
                /\ varroot' = n.vr
                /\ UNCHANGED breakflag
    /\ UNCHANGED <<r, ctlroot, editroot, nextid, dummyloop, device, drive, buffers,
                   stats, exiterror, startup, user,
                   files, seed, compare>>

\* ----------------------------------------------------------------------
\* exec: the verb is looked up among the program labels first, then in
\* cmdtbl.  Each handler below is exec dispatching to one command_...
\* function; it leaves the result in r and the cursor where the handler
\* left *line.
\* ----------------------------------------------------------------------
cmdtbl ==
    {"?", "help", "r", "read", "w", "write", "dw", "dumpwrite", "dr", "dumpread",
     "pt", "pattn", "c", "comp", "cm", "compmode", "drive", "listdrives", "ld",
     "unprot", "echo", "echon", "l", "loop", "lq", "loopq", "u", "while", "wend",
     "repeat", "until", "for", "fend", "select", "case", "default", "send",
     "p", "print", "pn", "printn", "s", "set", "local", "srand", "list", "clear",
     "save", "load", "delt", "end", "go", "if", "exit", "exitonerror", "i",
     "input", "testrand", "listvariables"}

\* the command in front of the cursor
Tok == TokAt(editroot, linebuffer, linep)
\* exec finds no label for the verb and finds it in cmdtbl under one of names
Builtin(names) ==
    /\ pc = "exec"
    /\ fndpgm(editroot, Tok.verb) = 0
    /\ Tok.verb \in names
\* the build calls the right operand of rand64's | first
RightFirst == Scenarios[scn].kind = "rnd" /\ Scenarios[scn].par.given

\* the value of the k-th word behind the verb, for a handler that calls
\* getparam where the last word ended
Param(k) == spparam(Word(Tok, k), varroot, drivesize)
\* the same for a handler that skips the spaces first
Skipped(k) == getparam(Word(Tok, k), varroot, drivesize)
\* the cursor behind the verb and k words
Behind(k) == Adv(editroot, linebuffer, linep, 1 + k)
\* the cursor behind the verb and k words when those words are there
Upto(k) == Behind(IF k < Len(Tok.args) THEN k ELSE Len(Tok.args))
\* the handler returns res with the cursor at c
Ret(res, c) ==
    /\ r' = res
    /\ linep' = c
    /\ pc' = "ret"

exec_invalid ==
    /\ pc = "exec"
    /\ fndpgm(editroot, Tok.verb) = 0
    /\ Tok.verb \notin cmdtbl
    /\ Ret("error", Behind(0))
    /\ UNCHANGED <<interp, device, drive, buffers, stats, flags, breakflag, user,
                   files, seed, compare>>

\* ----------------------------------------------------------------------
\* The adapter (stubio.c): sector s of the simulated disc is disc[s].
\* ----------------------------------------------------------------------
setdrive(d) == IF d < 0 THEN [nr |-> 1, phy |-> phydrive] ELSE [nr |-> 0, phy |-> d]
\* the handles setdrive opens, one for the drive it is given, and the
\* handles it closes, none, in the adapters that work on a device
opened(d) == IF d < 0 THEN 0 ELSE 1
closed(d) == 0
physize(phy) == IF phy < 0 THEN [nr |-> 1, size |-> 0] ELSE [nr |-> 0, size |-> SECSIZE * SIMSEC]
\* the sectors a transfer of numsec sectors at lba touches
Span(lba, numsec) == lba..(lba + numsec - 1)
writesector(buf, lba, numsec) ==
    IF phydrive < 0 THEN [nr |-> 1, disc |-> disc]
    ELSE [nr |-> 0,
          disc |-> [s \in DOMAIN disc |->
                        IF s \in Span(lba, numsec) THEN buf[s - lba] ELSE disc[s]]]
readsector(buf, lba, numsec) ==
    IF phydrive < 0 THEN [nr |-> 1, buf |-> buf]
    ELSE [nr |-> 0,
          buf |-> [s \in DOMAIN buf |->
                        IF s + lba \in Span(lba, numsec) THEN disc[s + lba] ELSE buf[s]]]

\* the lba and sector count parsed by read and write: defaults 0 and 1
Xfer ==
    LET n == Len(Tok.args)
        a == Skipped(1)
        b == Param(2)
    IN  IF n = 0 THEN [r |-> "ok", lba |-> 0, numsecs |-> 1, used |-> 0]
        ELSE IF a.r # "ok" THEN [r |-> a.r, lba |-> 0, numsecs |-> 1, used |-> 1]
        ELSE IF n = 1 THEN [r |-> "ok", lba |-> a.v, numsecs |-> 1, used |-> 1]
        ELSE IF b.r # "ok" THEN [r |-> b.r, lba |-> a.v, numsecs |-> 1, used |-> 2]
        ELSE [r |-> "ok", lba |-> a.v, numsecs |-> b.v, used |-> 2]
\* the validation of read and write passes
XferValid(x) ==
    /\ ~(currentdrive < 0)
    /\ ~(x.numsecs > NOSECS)
    /\ ~(x.lba >= drivesize)
    /\ ~(x.lba + x.numsecs - 1 >= drivesize)
\* the transfer stays inside the simulated disc
XferInside(x) == x.numsecs <= 0 \/ (x.lba >= 0 /\ x.lba + x.numsecs <= SIMSEC)

\* the test command_write starts with
FreeToWrite == FALSE
WriteLocked == writeprot

command_write ==
    /\ Builtin({"w", "write"})
    /\ LET x == Xfer
           w == writesector(writebuffer, x.lba, x.numsecs)
       IN  IF WriteLocked THEN
                /\ Ret("error", Behind(0))
                /\ UNCHANGED <<device, stats>>
           ELSE IF x.r # "ok" THEN
                /\ Ret(x.r, Behind(x.used))
                /\ UNCHANGED <<device, stats>>
           ELSE IF ~XferValid(x) THEN
                /\ Ret("error", Behind(x.used))
                /\ UNCHANGED <<device, stats>>
           ELSE IF ~XferInside(x) THEN
                \* the adapter indexes outside simulated_disc
                /\ pc' = "fault"
                /\ UNCHANGED <<r, linep, device, stats>>
           ELSE
                /\ wrcalls' = wrcalls + 1
                /\ disc' = w.disc
                /\ IF w.nr # 0 THEN
                        /\ Ret("error", Behind(x.used))
                        /\ UNCHANGED stats
                   ELSE
                        /\ Ret("ok", Behind(x.used))
                        /\ iopwrite' = iopwrite + 1
                        /\ bcwrite' = bcwrite + x.numsecs * SECSIZE
                        /\ UNCHANGED <<iopread, bcread>>
                /\ UNCHANGED <<phydrive, rdcalls, handles>>
    /\ UNCHANGED <<interp, drive, buffers, flags, breakflag, user,
                   files, seed, compare>>

command_read ==
    /\ Builtin({"r", "read"})
    /\ LET x == Xfer
           rd == readsector(readbuffer, x.lba, x.numsecs)
       IN  IF x.r # "ok" THEN
                /\ Ret(x.r, Behind(x.used))
                /\ UNCHANGED <<device, stats, readbuffer>>
           ELSE IF ~XferValid(x) THEN
                /\ Ret("error", Behind(x.used))
                /\ UNCHANGED <<device, stats, readbuffer>>
           ELSE IF ~XferInside(x) THEN
                /\ pc' = "fault"
                /\ UNCHANGED <<r, linep, device, stats, readbuffer>>
           ELSE
                /\ rdcalls' = rdcalls + 1
                /\ readbuffer' = rd.buf
                /\ IF rd.nr # 0 THEN
                        /\ Ret("error", Behind(x.used))
                        /\ UNCHANGED stats
                   ELSE
                        /\ Ret("ok", Behind(x.used))
                        /\ iopread' = iopread + 1
                        /\ bcread' = bcread + x.numsecs * SECSIZE
                        /\ UNCHANGED <<iopwrite, bcwrite>>
                /\ UNCHANGED <<phydrive, disc, wrcalls, handles>>
    /\ UNCHANGED <<interp, drive, writebuffer, flags, breakflag, user,
                   files, seed, compare>>

\* the write protection drive leaves behind when it selects a drive
StaleLock == writeprot
DriveLock == TRUE

\* drive with a number selects the drive and locks it; drive alone prints
\* the current drive
command_drive ==
    /\ Builtin({"drive"})
    /\ LET v == Skipped(1)
           sd == setdrive(ToInt(v.v))
           ps == physize(sd.phy)
       IN  IF Len(Tok.args) = 0 THEN
                /\ Ret("ok", Behind(0))
                /\ UNCHANGED <<device, drive, stats>>
           ELSE IF v.r # "ok" THEN
                /\ Ret(v.r, Behind(1))
                /\ UNCHANGED <<device, drive, stats>>
           ELSE
                /\ writeprot' = DriveLock
                /\ lastlock' = "drive"
                /\ phydrive' = sd.phy
                /\ handles' = handles + opened(ToInt(v.v)) - closed(ToInt(v.v))
                /\ UNCHANGED <<disc, wrcalls, rdcalls>>
                /\ IF sd.nr # 0 THEN
                        /\ Ret("error", Behind(1))
                        /\ UNCHANGED <<currentdrive, drivesize, stats>>
                   ELSE IF ps.nr # 0 THEN
                        /\ Ret("error", Behind(1))
                        /\ currentdrive' = ToInt(v.v)
                        /\ UNCHANGED <<drivesize, stats>>
                   ELSE
                        /\ Ret("ok", Behind(1))
                        /\ currentdrive' = ToInt(v.v)
                        /\ drivesize' = ps.size \div SECSIZE
                        /\ iopwrite' = 0 /\ iopread' = 0 /\ bcwrite' = 0 /\ bcread' = 0
    /\ UNCHANGED <<interp, buffers, flags, breakflag, user,
                   files, seed, compare>>

command_unprot ==
    /\ Builtin({"unprot"})
    /\ writeprot' = FALSE
    /\ lastlock' = "unprot"
    /\ Ret("ok", Behind(0))
    /\ UNCHANGED <<interp, device, currentdrive, drivesize, buffers, stats, flags,
                   breakflag, user,
                   files, seed, compare>>

\* seed = seeds on the way out of pattn and comp
Kept(seeds, used) == used
Restored(seeds, used) == seeds

\* pattn [pattern [value [sectors]]] fills the write buffer
pattn_fill(seeds, pat, v, len) ==
    IF v.r = "fault" \/ (v.r = "ok" /\ len.r = "fault") THEN
         /\ pc' = "fault"
         /\ UNCHANGED <<r, linep, writebuffer, readbuffer, seed>>
    ELSE IF v.r # "ok" THEN
         /\ Ret(v.r, Behind(2))
         /\ seed' = Restored(seeds, v.seed)
         /\ UNCHANGED <<writebuffer, readbuffer>>
    ELSE IF len.r # "ok" THEN
         /\ Ret(len.r, Behind(3))
         /\ seed' = Restored(seeds, len.seed)
         /\ UNCHANGED <<writebuffer, readbuffer>>
    ELSE IF pat \notin {"cnt", "dwcnt", "val", "rand", "lba"} THEN
         /\ Ret("error", Upto(3))
         /\ seed' = Restored(seeds, len.seed)
         /\ UNCHANGED <<writebuffer, readbuffer>>
    ELSE IF len.v > NOSECS THEN
         \* the fill runs over the end of writebuffer, into readbuffer
         \* where the build has put it behind writebuffer or into
         \* another object
         \/ /\ pc' = "fault"
            /\ UNCHANGED <<r, linep, writebuffer, readbuffer, seed>>
         \/ /\ len.v <= 2 * NOSECS
            /\ Ret("ok", Upto(3))
            /\ seed' = Restored(seeds, len.seed)
            /\ writebuffer' = [k \in DOMAIN writebuffer |->
                     Pattern(pat, v.v, k, writebuffer[k], RightFirst)]
            /\ readbuffer' = [k \in DOMAIN readbuffer |->
                     IF NOSECS + k < len.v
                     THEN Pattern(pat, v.v, NOSECS + k, readbuffer[k], RightFirst)
                     ELSE readbuffer[k]]
    ELSE
         /\ Ret("ok", Upto(3))
         /\ seed' = Restored(seeds, len.seed)
         /\ writebuffer' = [k \in DOMAIN writebuffer |->
                 IF k < len.v THEN Pattern(pat, v.v, k, writebuffer[k], RightFirst)
                 ELSE writebuffer[k]]
         /\ UNCHANGED readbuffer

\* the sector count is read after the value, with the seed the value left
pattn_len(seeds, pat, v) ==
    pattn_fill(seeds, pat, v,
               IF Len(Tok.args) >= 3
               THEN Draw(Word(Tok, 3), varroot, drivesize, v.seed, RightFirst, FALSE)
               ELSE [r |-> "ok", v |-> NOSECS, seed |-> v.seed])

command_pattn ==
    /\ Builtin({"pt", "pattn"})
    /\ pattn_len(seed,
                 IF Len(Tok.args) = 0 THEN "cnt" ELSE Name(Tok, 1),
                 IF Len(Tok.args) >= 2
                 THEN Draw(Word(Tok, 2), varroot, drivesize, 42, RightFirst, TRUE)
                 ELSE [r |-> "ok", v |-> 0, seed |-> 42])
    /\ UNCHANGED <<interp, device, drive, stats, flags, breakflag, user,
                   files, compare>>

\* ----------------------------------------------------------------------
\* Comparing the read buffer: comp and compmode.  reports and examined are
\* not in the program: reports is what the last comp printed, an "miss"
\* entry for each miscompare message and an "info" entry for each count of
\* repeats, and examined the number of bytes it passed to printcomp.
\* ----------------------------------------------------------------------
\* byte i of a buffer
At(buf, i) == buf[i \div SECSIZE][(i % SECSIZE) + 1]

\* nb != ob
DiffersUp(nb, ob) == nb > ob
Differs(nb, ob) == nb # ob
\* first || curmode == compmode_all
ShownAlways(isfirst, mode) == TRUE
Shown(isfirst, mode) == isfirst \/ mode = "all"
\* the value of val in comp's lba loop when it reaches sector s
StampFixed(v, s) == v
Stamp(v, s) == v + s

Miss(addr, nb, ob) == [kind |-> "miss", addr |-> addr, nb |-> nb, ob |-> ob]
Info(n) == [kind |-> "info", addr |-> 0, nb |-> n, ob |-> 0]

\* one call of printcomp: st holds first, dataset, comp_a, comp_b, repcnt,
\* what was printed, the break flag and the result
printcomp(st, p, mode, exiterr) ==
    LET miss == Differs(p.nb, p.ob)
        shown == miss /\ Shown(st.first, mode)
        counted == shown /\ st.dataset /\ p.nb = st.comp_a /\ p.ob = st.comp_b
        printed == shown /\ ~counted
        fails == miss /\ mode = "fail"
        broken == ~fails /\ st.brk
    IN  [first |-> st.first /\ ~miss,
         dataset |-> st.dataset \/ (miss /\ ~fails),
         comp_a |-> IF miss /\ ~fails THEN p.nb ELSE st.comp_a,
         comp_b |-> IF miss /\ ~fails THEN p.ob ELSE st.comp_b,
         repcnt |-> IF counted THEN st.repcnt + 1 ELSE IF printed THEN 0 ELSE st.repcnt,
         reports |-> IF printed
                     THEN st.reports \o (IF st.repcnt # 0 THEN <<Info(st.repcnt)>> ELSE <<>>)
                            \o <<Miss(p.addr, p.nb, p.ob)>>
                     ELSE st.reports,
         examined |-> st.examined + 1,
         brk |-> st.brk /\ fails,
         r |-> IF fails THEN "error"
               ELSE IF broken THEN (IF exiterr THEN "exit" ELSE "stop")
               ELSE "ok"]

\* the byte comp expects at index i of the buffer
Expect(pat, v, i, wbuf, rf) ==
    CASE pat = "cnt" -> i % 256
      [] pat = "dwcnt" -> Bytes(i \div 4)[(i % 4) + 1]
      [] pat = "val" -> Bytes(v)[(i % 4) + 1]
      [] pat = "rand" -> RandFill(42, (i % SECSIZE) + 1, rf)[(i % SECSIZE) + 1]
      [] pat = "lba" -> Bytes(Stamp(v, i \div SECSIZE))[(i % 4) + 1]
      [] pat = "buffs" -> At(wbuf, i)

\* the calls of printcomp comp makes if none stops it, in order: the address
\* it passes, the byte of the read buffer and the byte expected
Pairs(pat, v, len, rbuf, wbuf, rf) ==
    IF pat = "lba" THEN
        [j \in 1..(4 * len) |->
            LET i == ((j - 1) \div 4) * SECSIZE + ((j - 1) % 4) IN
            [addr |-> i, nb |-> At(rbuf, i), ob |-> Expect(pat, v, i, wbuf, rf)]]
    ELSE
        [j \in 1..(SECSIZE * len) |->
            [addr |-> IF pat = "rand" THEN (j - 1) % SECSIZE ELSE j - 1,
             nb |-> At(rbuf, j - 1),
             ob |-> Expect(pat, v, j - 1, wbuf, rf)]]

\* comp's loop: printcomp byte after byte until one call returns not ok
RECURSIVE Compare(_, _, _, _, _)
Compare(ps, k, st, mode, exiterr) ==
    IF k > Len(ps) \/ st.r # "ok" THEN st
    ELSE Compare(ps, k + 1, printcomp(st, ps[k], mode, exiterr), mode, exiterr)

\* the message behind the loop when repeats have accumulated
Flush(st) ==
    IF st.r = "ok" /\ st.repcnt # 0
    THEN [st EXCEPT !.reports = st.reports \o <<Info(st.repcnt)>>, !.repcnt = 0]
    ELSE st

\* comp [pattern [value [sectors]]] compares the read buffer
command_comp ==
    /\ Builtin({"c", "comp"})
    /\ LET n == Len(Tok.args)
           seeds == seed
           pat == IF n = 0 THEN "cnt" ELSE Name(Tok, 1)
           v == IF n >= 2 THEN Draw(Word(Tok, 2), varroot, drivesize, 42, RightFirst, FALSE)
                ELSE [r |-> "ok", v |-> 0, seed |-> 42]
           len == IF n >= 3 THEN Draw(Word(Tok, 3), varroot, drivesize, v.seed, RightFirst, FALSE)
                  ELSE [r |-> "ok", v |-> NOSECS, seed |-> v.seed]
           start == [first |-> TRUE, dataset |-> FALSE, comp_a |-> comp_a, comp_b |-> comp_b,
                     repcnt |-> 0, reports |-> <<>>, examined |-> 0, brk |-> breakflag,
                     r |-> "ok"]
           done == Flush(Compare(Pairs(pat, v.v, len.v, readbuffer, writebuffer, RightFirst),
                                 1, start, curmode, exiterror))
           Leave(st) ==
                /\ first' = st.first
                /\ dataset' = st.dataset
                /\ comp_a' = st.comp_a
                /\ comp_b' = st.comp_b
                /\ repcnt' = st.repcnt
                /\ reports' = st.reports
                /\ examined' = st.examined
                /\ breakflag' = st.brk
       IN  IF v.r = "fault" \/ (v.r = "ok" /\ len.r = "fault") THEN
                /\ pc' = "fault"
                /\ UNCHANGED <<r, linep, seed, first, dataset, comp_a, comp_b, repcnt,
                               reports, examined, breakflag>>
           ELSE IF v.r # "ok" THEN
                /\ Ret(v.r, Behind(2))
                /\ seed' = Restored(seeds, v.seed)
                /\ Leave(start)
           ELSE IF len.r # "ok" THEN
                /\ Ret(len.r, Behind(3))
                /\ seed' = Restored(seeds, len.seed)
                /\ Leave(start)
           ELSE IF pat \notin {"cnt", "dwcnt", "val", "rand", "lba", "buffs"} THEN
                /\ Ret("error", Upto(3))
                /\ seed' = Restored(seeds, len.seed)
                /\ Leave(start)
           ELSE IF len.v > NOSECS THEN
                \* the loop reads over the end of readbuffer
                /\ pc' = "fault"
                /\ UNCHANGED <<r, linep, seed, first, dataset, comp_a, comp_b, repcnt,
                               reports, examined, breakflag>>
           ELSE
                /\ Ret(done.r, Upto(3))
                /\ seed' = Restored(seeds, len.seed)
                /\ Leave(done)
    /\ UNCHANGED <<interp, device, drive, buffers, stats, flags, user, files, curmode>>

\* compmode all | one | fail
command_compmode ==
    /\ Builtin({"cm", "compmode"})
    /\ IF Name(Tok, 1) \in {"all", "one", "fail"} THEN
            /\ curmode' = Name(Tok, 1)
            /\ Ret("ok", Behind(1))
       ELSE
            /\ Ret("error", Upto(1))
            /\ UNCHANGED curmode
    /\ UNCHANGED <<interp, device, drive, buffers, stats, flags, breakflag, user,
                   files, seed, first, dataset, comp_a, comp_b, repcnt, reports, examined>>

\* u val: restart the line while val is zero
command_untill ==
    /\ Builtin({"u"})
    /\ LET v == Param(1) IN
        IF v.r # "ok" THEN
            Ret(v.r, Behind(1))
        ELSE IF v.v = 0 THEN
            Ret("restart", Cur(introot[1].curlin, 1, 0))
        ELSE
            Ret("ok", Behind(1))
    /\ UNCHANGED <<interp, device, drive, buffers, stats, flags, breakflag, user,
                   files, seed, compare>>

\* ----------------------------------------------------------------------
\* Dumps and the listing: long outputs that look at the break flag.
\* ----------------------------------------------------------------------
\* dump: the break is checked twice behind each full line of DUMPLINE
\* bytes.  A break the first check finds ends the dump with r as it stands,
\* ok unless exiterror is on; a break that arrives between the two checks
\* is found by the second, which returns stop.  brk tells whether the flag
\* is up on entry, late whether a break arrives between two checks.
dump(size, brk, late, exiterr) ==
    IF size < DUMPLINE THEN [r |-> "ok", brk |-> brk]
    ELSE IF brk THEN [r |-> IF exiterr THEN "exit" ELSE "ok", brk |-> FALSE]
    ELSE IF late THEN [r |-> "stop", brk |-> FALSE]
    ELSE [r |-> "ok", brk |-> FALSE]

\* dw [sectors] and dr [sectors]
DumpCmd(names) ==
    /\ Builtin(names)
    /\ \E late \in (IF Scenarios[scn].brk THEN BOOLEAN ELSE {FALSE}) :
        LET given == Len(Tok.args) > 0
            v == IF given THEN Skipped(1) ELSE Ok(1)
            d == dump(SECSIZE * v.v, breakflag, late, exiterror)
        IN  IF v.r # "ok" THEN
                /\ Ret(v.r, Behind(1))
                /\ UNCHANGED breakflag
            ELSE IF v.v > NOSECS THEN
                /\ Ret("error", Upto(1))
                /\ UNCHANGED breakflag
            ELSE
                /\ Ret(d.r, Upto(1))
                /\ breakflag' = d.brk
    /\ UNCHANGED <<interp, device, drive, buffers, stats, flags, user,
                   files, seed, compare>>
command_dumpwrite == DumpCmd({"dw", "dumpwrite"})
command_dumpread == DumpCmd({"dr", "dumpread"})

\* list: the break is checked in front of every stored line; a break ends
\* the listing with r as it stands, ok unless exiterror is on
command_list ==
    /\ Builtin({"list"})
    /\ IF editroot # <<>> /\ breakflag
       THEN Ret(IF exiterror THEN "exit" ELSE "ok", Behind(0))
       ELSE Ret("ok", Behind(0))
    /\ breakflag' = IF editroot # <<>> THEN FALSE ELSE breakflag
    /\ UNCHANGED <<interp, device, drive, buffers, stats, flags, user,
                   files, seed, compare>>

\* ----------------------------------------------------------------------
\* Procedures and variables.
\* ----------------------------------------------------------------------
\* the values a result variable can hold
Results == {"ok", "exit", "error", "break", "continue", "stop", "restart"}

\* the loop over the declared parameters
RECURSIVE BindAll(_, _, _, _)
BindAll(ps, k, tok, vr) ==
    IF k > Len(ps) THEN [r |-> "ok", vr |-> vr, used |-> Len(ps)]
    ELSE LET v == spparam(Word(tok, k), vr, drivesize) IN
         IF v.r # "ok" THEN [r |-> v.r, vr |-> vr, used |-> k]
         ELSE BindAll(ps, k + 1, tok, pushvar(vr, ps[k], v.v))
\* the call that fails takes the bindings it has pushed off the stack again
BindOrRestore(ps, k, tok, vr) ==
    IF BindAll(ps, k, tok, vr).r # "ok"
    THEN [BindAll(ps, k, tok, vr) EXCEPT !.vr = vr]
    ELSE BindAll(ps, k, tok, vr)
\* exec's loop over the declared parameters: one expression each, pushed
\* as a variable as soon as it is evaluated
RECURSIVE BindParams(_, _, _, _)
BindParams(ps, k, tok, vr) ==
    IF k > Len(ps) THEN [r |-> "ok", vr |-> vr, used |-> Len(ps)]
    ELSE LET v == spparam(Word(tok, k), vr, drivesize) IN
         IF v.r # "ok" THEN [r |-> v.r, vr |-> vr, used |-> k]
         ELSE BindParams(ps, k + 1, tok, pushvar(vr, ps[k], v.v))

\* what exec returns behind a call: its local r holds the result of the
\* last getparam, and nothing at all when the procedure declares no
\* parameter
CallResult(ps) == IF Len(ps) > 0 THEN {"ok"} ELSE Results

\* the verb is the label of a stored line: call it
exec_call ==
    /\ pc = "exec"
    /\ fndpgm(editroot, Tok.verb) # 0
    /\ LET fp == editroot[fndpgm(editroot, Tok.verb)]
           b == BindParams(fp.params, 1, Tok, varroot)
           back == Behind(b.used)
       IN  /\ varroot' = b.vr
           /\ IF b.r # "ok" THEN
                    /\ Ret(b.r, back)
                    /\ UNCHANGED introot
              ELSE
                    /\ introot' = [pushlvl([introot EXCEPT ![1].curchr = back], b.vr,
                                           fp.id, Cur(fp.id, 1, 0))
                                    EXCEPT ![1].base = varroot]
                    /\ linep' = Cur(fp.id, 1, 0)
                    /\ pc' = "ret"
                    /\ r' \in CallResult(fp.params)
    /\ UNCHANGED <<ctlroot, editroot, nextid, dummyloop, device, drive, buffers, stats,
                   flags, breakflag, user,
                   files, seed, compare>>

\* end: return to the caller, or an error in immediate mode
command_end ==
    /\ Builtin({"end"})
    /\ IF Len(introot) = 1 THEN
            /\ Ret("error", Behind(0))
            /\ UNCHANGED <<introot, varroot>>
       ELSE
            /\ introot' = poplvl(introot, varroot).is
            /\ varroot' = poplvl(introot, varroot).vr
            /\ Ret("ok", introot[2].curchr)
    /\ UNCHANGED <<ctlroot, editroot, nextid, dummyloop, device, drive, buffers, stats,
                   flags, breakflag, user,
                   files, seed, compare>>

\* set name value
command_set ==
    /\ Builtin({"s", "set"})
    /\ LET v == Draw(Word(Tok, 2), varroot, drivesize, seed, RightFirst, TRUE) IN
        IF v.r = "fault" THEN
            /\ pc' = "fault"
            /\ UNCHANGED <<r, linep, varroot, seed>>
        ELSE IF v.r # "ok" THEN
            /\ Ret(v.r, Behind(2))
            /\ UNCHANGED <<varroot, seed>>
        ELSE
            /\ Ret("ok", Behind(2))
            /\ varroot' = AssignVar(varroot, Name(Tok, 1), v.v)
            /\ seed' = v.seed
    /\ UNCHANGED <<introot, ctlroot, editroot, nextid, dummyloop, device, drive, buffers,
                   stats, flags, breakflag, user,
                   files, compare>>

\* srand
command_srand ==
    /\ Builtin({"srand"})
    /\ seed' = 42
    /\ Ret("ok", Behind(0))
    /\ UNCHANGED <<interp, device, drive, buffers, stats, flags, breakflag, user,
                   files, compare>>

\* local name
command_local ==
    /\ Builtin({"local"})
    /\ Ret("ok", Behind(1))
    /\ varroot' = pushvar(varroot, Name(Tok, 1), 0)
    /\ UNCHANGED <<introot, ctlroot, editroot, nextid, dummyloop, device, drive, buffers,
                   stats, flags, breakflag, user,
                   files, seed, compare>>

command_exit ==
    /\ Builtin({"exit"})
    /\ Ret("exit", Behind(0))
    /\ UNCHANGED <<interp, device, drive, buffers, stats, flags, breakflag, user,
                   files, seed, compare>>

command_exitonerror ==
    /\ Builtin({"exitonerror"})
    /\ exiterror' = TRUE
    /\ Ret("ok", Behind(0))
    /\ UNCHANGED <<interp, device, drive, buffers, stats, error_result, startup,
                   breakflag, user,
                   files, seed, compare>>

\* ----------------------------------------------------------------------
\* Loops over a line: loop and loopq.
\* ----------------------------------------------------------------------
\* introot->curlin->looplist
LoopList == IF introot[1].curlin = 0 THEN dummyloop
            ELSE editroot[LineIdx(editroot, introot[1].curlin)].looplist
\* the stop count: -1 when there is none
StopCount == IF Len(Tok.args) = 0 THEN -1 ELSE ToInt(Skipped(1).v)
\* the line is executed again: the counter is short of the stop count, or
\* there is no stop count
AgainInclusive(stopcount, loopcount) == stopcount < 0 \/ loopcount <= stopcount
Again(stopcount, loopcount) == stopcount < 0 \/ loopcount < stopcount

\* the line that counts is pushed at the root of the store
SetCountersAtRoot(er, lin, list) ==
    <<[er[LineIdx(er, lin)] EXCEPT !.looplist = list]>>
        \o SubSeq(er, 1, LineIdx(er, lin) - 1)
        \o SubSeq(er, LineIdx(er, lin) + 1, Len(er))
\* the counters of the stored line lin become list: cp->loopcount is written
\* in the entry found in introot->curlin->looplist
SetCounters(er, lin, list) == [er EXCEPT ![LineIdx(er, lin)].looplist = list]
\* the body of command_loop and command_loopq (they differ in what they print)
LoopCmd ==
    LET pos == Upto(1)
        list == fndcnt(LoopList, pos)
        i == CntIdx(list, pos)
        count == list[i].loopcount + 1
        again == Again(StopCount, count)
        list2 == [list EXCEPT ![i].loopcount = IF again THEN count ELSE 0]
        start == Cur(introot[1].curlin, 1, 0)
    IN  IF Len(Tok.args) > 0 /\ Skipped(1).r # "ok" THEN
            /\ Ret(Skipped(1).r, Behind(1))
            /\ UNCHANGED <<introot, editroot, dummyloop>>
        ELSE IF list[i].loopcount >= INT_MAX THEN
            \* loopcount++ overflows
            /\ pc' = "fault"
            /\ UNCHANGED <<r, linep, introot, editroot, dummyloop>>
        ELSE
            /\ IF introot[1].curlin = 0 THEN
                    /\ dummyloop' = list2
                    /\ UNCHANGED editroot
               ELSE
                    /\ editroot' = SetCounters(editroot, introot[1].curlin, list2)
                    /\ UNCHANGED dummyloop
            /\ IF again THEN
                    /\ Ret("restart", start)
                    /\ introot' = [introot EXCEPT ![1].curchr = start]
               ELSE
                    /\ Ret("ok", pos)
                    /\ UNCHANGED introot

command_loop ==
    /\ Builtin({"l", "loop"})
    /\ LoopCmd
    /\ UNCHANGED <<varroot, ctlroot, nextid, device, drive, buffers, stats, flags,
                   breakflag, user,
                   files, seed, compare>>

command_loopq ==
    /\ Builtin({"lq", "loopq"})
    /\ LoopCmd
    /\ UNCHANGED <<varroot, ctlroot, nextid, device, drive, buffers, stats, flags,
                   breakflag, user,
                   files, seed, compare>>

\* ----------------------------------------------------------------------
\* Structured loops: control frames [ctl, linpos, chrpos, var, step].
\* while leaves var and step of its frame unset.
\* ----------------------------------------------------------------------
\* the word in front of a cursor, and its value
WordAt(c) ==
    IF AtEnd(editroot, linebuffer, c) THEN <<"none">>
    ELSE Word(TokAt(editroot, linebuffer, c), c.off)
\* "purge the control stack until a ... is seen": one frame at most
Purge(cs, ctl) == IF Len(cs) # 0 /\ cs[1].ctl # ctl THEN popctl(cs) ELSE cs
\* the for variable is outside its range
OutOfRangeStrict(s, e, st) == (s >= e /\ st >= 0) \/ (s <= e /\ st < 0)
OutOfRange(s, e, st) == (s > e /\ st >= 0) \/ (s < e /\ st < 0)
\* the step fend adds to the variable, read from the step word in the text
StepReparsed(top, vr, ds) ==
    LET w == WordAt(Cur(top.chrpos.lin, top.chrpos.chr, 4)) IN
    IF w = <<"none">> THEN 1 ELSE getparam(w, vr, ds).v
\* st = ctlroot->step: the step fend adds to the variable
Step(top, vr, ds) == top.step
\* the handler skips forward to cmd and returns ok whatever skipcmd returned
SkipTo(from, vr, cmd) ==
    LET sk == skipcmd(editroot, linebuffer, from, introot, vr, cmd, "", "") IN
    IF sk.r = "hang" THEN
        /\ pc' = "hang"
        /\ UNCHANGED <<r, linep, introot>>
        /\ varroot' = vr
    ELSE
        /\ Ret("ok", sk.line)
        /\ introot' = sk.is
        /\ varroot' = sk.vr

command_while ==
    /\ Builtin({"while"})
    /\ LET v == Param(1)
           lines == Cur(linep.lin, linep.chr, 1)
       IN  IF v.r # "ok" THEN
                /\ Ret(v.r, Behind(1))
                /\ UNCHANGED <<introot, varroot, ctlroot>>
           ELSE IF v.v = 0 THEN
                /\ SkipTo(Behind(1), varroot, "wend")
                /\ UNCHANGED ctlroot
           ELSE
                /\ Ret("ok", Behind(1))
                /\ ctlroot' = <<[ctl |-> "while", linpos |-> introot[1].curlin,
                                 chrpos |-> lines, var |-> NULL, step |-> 0]>> \o ctlroot
                /\ UNCHANGED <<introot, varroot>>
    /\ UNCHANGED <<editroot, nextid, dummyloop, device, drive, buffers, stats, flags,
                   breakflag, user,
                   files, seed, compare>>

command_wend ==
    /\ Builtin({"wend"})
    /\ LET cs == Purge(ctlroot, "while")
           top == cs[1]
           v == spparam(WordAt(top.chrpos), varroot, drivesize)
           back == [introot EXCEPT ![1].curlin = top.linpos, ![1].curchr = top.chrpos]
       IN  IF Len(cs) = 0 THEN
                /\ Ret("error", Behind(0))
                /\ ctlroot' = cs
                /\ UNCHANGED introot
           ELSE IF v.r # "ok" THEN
                /\ Ret(v.r, top.chrpos)
                /\ ctlroot' = cs
                /\ introot' = back
           ELSE IF v.v # 0 THEN
                /\ Ret("ok", Adv(editroot, linebuffer, top.chrpos, 1))
                /\ ctlroot' = cs
                /\ introot' = back
           ELSE
                /\ Ret("ok", Behind(0))
                /\ ctlroot' = popctl(cs)
                /\ UNCHANGED introot
    /\ UNCHANGED <<varroot, editroot, nextid, dummyloop, device, drive, buffers, stats,
                   flags, breakflag, user,
                   files, seed, compare>>

command_for ==
    /\ Builtin({"for"})
    /\ LET s == Param(2)
           e == Param(3)
           st == IF Len(Tok.args) >= 4 THEN Skipped(4) ELSE Ok(1)
           lines == Cur(linep.lin, linep.chr, 3)
           vr == AssignVar(varroot, Name(Tok, 1), s.v)
           uvar == Len(vr) - fndvar(vr, Name(Tok, 1)) + 1
       IN  IF s.r # "ok" THEN
                /\ Ret(s.r, Behind(2))
                /\ UNCHANGED <<introot, varroot, ctlroot>>
           ELSE IF e.r # "ok" THEN
                /\ Ret(e.r, Behind(3))
                /\ UNCHANGED <<introot, varroot, ctlroot>>
           ELSE IF st.r # "ok" THEN
                /\ Ret(st.r, Behind(4))
                /\ UNCHANGED <<introot, varroot, ctlroot>>
           ELSE IF OutOfRange(s.v, e.v, st.v) THEN
                /\ SkipTo(Upto(4), vr, "fend")
                /\ UNCHANGED ctlroot
           ELSE
                /\ Ret("ok", Upto(4))
                /\ varroot' = vr
                /\ ctlroot' = <<[ctl |-> "for", linpos |-> introot[1].curlin,
                                 chrpos |-> lines, var |-> uvar, step |-> st.v]>> \o ctlroot
                /\ UNCHANGED introot
    /\ UNCHANGED <<editroot, nextid, dummyloop, device, drive, buffers, stats, flags,
                   breakflag, user,
                   files, seed, compare>>

command_fend ==
    /\ Builtin({"fend"})
    /\ LET cs == Purge(ctlroot, "for")
           top == cs[1]
           i == PtrIdx(varroot, top.var)
           s == varroot[i].val + Step(top, varroot, drivesize)
           vr == [varroot EXCEPT ![i].val = s]
           e == spparam(WordAt(top.chrpos), vr, drivesize)
           back == [introot EXCEPT ![1].curlin = top.linpos, ![1].curchr = top.chrpos]
       IN  IF Len(cs) = 0 THEN
                /\ Ret("error", Behind(0))
                /\ ctlroot' = cs
                /\ UNCHANGED <<introot, varroot>>
           ELSE IF top.ctl # "for" \/ top.var > Len(varroot) THEN
                \* step and var are unset, or var points to a freed variable
                /\ pc' = "fault"
                /\ ctlroot' = cs
                /\ UNCHANGED <<r, linep, introot, varroot>>
           ELSE IF e.r # "ok" THEN
                /\ Ret(e.r, top.chrpos)
                /\ ctlroot' = cs
                /\ introot' = back
                /\ varroot' = vr
           ELSE IF OutOfRange(s, e.v, top.step) THEN
                /\ Ret("ok", Behind(0))
                /\ ctlroot' = popctl(cs)
                /\ varroot' = vr
                /\ UNCHANGED introot
           ELSE
                /\ Ret("ok", Past(top.chrpos))
                /\ ctlroot' = cs
                /\ introot' = back
                /\ varroot' = vr
    /\ UNCHANGED <<editroot, nextid, dummyloop, device, drive, buffers, stats, flags,
                   breakflag, user,
                   files, seed, compare>>

\* echo and echon print the rest of the command
command_echo ==
    /\ Builtin({"echo", "echon"})
    /\ Ret("ok", Past(linep))
    /\ UNCHANGED <<interp, device, drive, buffers, stats, flags, breakflag, user,
                   files, seed, compare>>

\* repeat: push a control frame on the position behind the verb
command_repeat ==
    /\ Builtin({"repeat"})
    /\ Ret("ok", Behind(0))
    /\ ctlroot' = <<[ctl |-> "repeat", linpos |-> introot[1].curlin,
                     chrpos |-> Behind(0), var |-> NULL, step |-> 0]>> \o ctlroot
    /\ UNCHANGED <<introot, varroot, editroot, nextid, dummyloop, device, drive, buffers,
                   stats, flags, breakflag, user,
                   files, seed, compare>>

\* until: back to the repeat while the condition is zero
command_until ==
    /\ Builtin({"until"})
    /\ LET cs == Purge(ctlroot, "repeat")
           top == cs[1]
           v == Param(1)
       IN  IF Len(cs) = 0 THEN
                /\ Ret("error", Behind(0))
                /\ ctlroot' = cs
                /\ UNCHANGED introot
           ELSE IF v.r # "ok" THEN
                /\ Ret(v.r, Behind(1))
                /\ ctlroot' = cs
                /\ UNCHANGED introot
           ELSE IF v.v = 0 THEN
                /\ Ret("ok", top.chrpos)
                /\ ctlroot' = cs
                /\ introot' = [introot EXCEPT ![1].curlin = top.linpos,
                                              ![1].curchr = top.chrpos]
           ELSE
                /\ Ret("ok", Behind(1))
                /\ ctlroot' = popctl(cs)
                /\ UNCHANGED introot
    /\ UNCHANGED <<varroot, editroot, nextid, dummyloop, device, drive, buffers, stats,
                   flags, breakflag, user,
                   files, seed, compare>>

\* ----------------------------------------------------------------------
\* select, case, default and send.
\* ----------------------------------------------------------------------
\* the selector matches a case value
MatchAbove(v, m) == v >= m
Match(v, m) == v = m
\* the values of a case command are all examined, the first right behind
\* the verb, each further one behind the spaces skipped
RECURSIVE CaseVals(_, _, _, _, _)
CaseVals(tok, k, v, vr, found) ==
    LET m == IF k = 1 THEN spparam(Word(tok, k), vr, drivesize)
             ELSE getparam(Word(tok, k), vr, drivesize)
    IN  IF m.r # "ok" THEN [r |-> m.r, found |-> found, used |-> k]
        ELSE IF k >= Len(tok.args) THEN [r |-> "ok", found |-> found \/ Match(v, m.v), used |-> k]
        ELSE CaseVals(tok, k + 1, v, vr, found \/ Match(v, m.v))
\* the command a cursor just behind its verb belongs to
VerbTok(c) ==
    IF c.off = 0 THEN Cmd("", <<>>) ELSE TokAt(editroot, linebuffer, c)
\* command_select's loop over the cases
RECURSIVE SelScan(_, _, _, _)
SelScan(c, is, vr, v) ==
    LET sk == skipcmd(editroot, linebuffer, c, is, vr, "case", "default", "send")
        cv == CaseVals(VerbTok(sk.line), 1, v, sk.vr, FALSE)
        at == IF sk.line.off = 0 THEN sk.line
              ELSE Adv(editroot, linebuffer, sk.line, cv.used)
    IN  IF sk.r # "ok" \/ sk.fnd # 1 THEN sk
        ELSE IF cv.r # "ok" THEN [sk EXCEPT !.r = cv.r, !.line = at]
        ELSE IF cv.found THEN [sk EXCEPT !.line = at]
        ELSE SelScan(at, sk.is, sk.vr, v)
\* the handler ends with what its scan returned
Scanned(sk) ==
    IF sk.r = "hang" THEN
        /\ pc' = "hang"
        /\ UNCHANGED <<r, linep, introot, varroot>>
    ELSE
        /\ Ret(sk.r, sk.line)
        /\ introot' = sk.is
        /\ varroot' = sk.vr

command_select ==
    /\ Builtin({"select"})
    /\ LET v == Param(1) IN
        IF v.r # "ok" THEN
            /\ Ret(v.r, Behind(1))
            /\ UNCHANGED <<introot, varroot>>
        ELSE Scanned(SelScan(Behind(1), introot, varroot, v.v))
    /\ UNCHANGED <<ctlroot, editroot, nextid, dummyloop, device, drive, buffers, stats,
                   flags, breakflag, user,
                   files, seed, compare>>

\* case and default met in the flow of execution end a body: on to the send
command_case ==
    /\ Builtin({"case"})
    /\ Scanned(skipcmd(editroot, linebuffer, Behind(0), introot, varroot, "send", "", ""))
    /\ UNCHANGED <<ctlroot, editroot, nextid, dummyloop, device, drive, buffers, stats,
                   flags, breakflag, user,
                   files, seed, compare>>

command_default ==
    /\ Builtin({"default"})
    /\ Scanned(skipcmd(editroot, linebuffer, Behind(0), introot, varroot, "send", "", ""))
    /\ UNCHANGED <<ctlroot, editroot, nextid, dummyloop, device, drive, buffers, stats,
                   flags, breakflag, user,
                   files, seed, compare>>

command_send ==
    /\ Builtin({"send"})
    /\ Ret("ok", Behind(0))
    /\ UNCHANGED <<interp, device, drive, buffers, stats, flags, breakflag, user,
                   files, seed, compare>>

\* ----------------------------------------------------------------------
\* The program store: delt, save and load.
\* ----------------------------------------------------------------------
\* delt's walk "while (p && --num)": the place in the list it ends on, one
\* behind the last for p = NULL
RECURSIVE DeltWalk(_, _, _)
DeltWalk(num, k, len) ==
    IF k <= len /\ num - 1 # 0 THEN DeltWalk(num - 1, k + 1, len) ELSE k

\* delt n: gap over the line found and free it.  A procedure that deletes
\* the line it is executing leaves main's cursor in freed storage.
command_delt ==
    /\ Builtin({"delt"})
    /\ LET num == Param(1)
           k == DeltWalk(num.v, 1, Len(editroot))
       IN  IF num.r # "ok" THEN
                /\ Ret(num.r, Behind(1))
                /\ UNCHANGED editroot
           ELSE IF k > Len(editroot) THEN
                /\ Ret("ok", Behind(1))
                /\ UNCHANGED editroot
           ELSE
                /\ editroot' = SubSeq(editroot, 1, k - 1) \o
                               SubSeq(editroot, k + 1, Len(editroot))
                /\ IF editroot[k].id = introot[1].curlin THEN
                        /\ pc' = "fault"
                        /\ UNCHANGED <<r, linep>>
                   ELSE Ret("ok", Behind(1))
    /\ UNCHANGED <<introot, varroot, ctlroot, nextid, dummyloop, device, drive, buffers,
                   stats, flags, breakflag, user, files, seed, compare>>

\* the lines save prints: the label and a colon when the line has a label,
\* then the text of the line; the parameter list is not printed
SaveText(er) == [i \in 1..Len(er) |-> Proc(er[i].label, <<>>, er[i].line)]

command_save ==
    /\ Builtin({"save"})
    /\ LET fname == Name(Tok, 1) IN
        IF fname \notin FileNames THEN
            \* the file cannot be created
            /\ Ret("error", Behind(1))
            /\ UNCHANGED files
        ELSE
            /\ Ret("ok", Behind(1))
            /\ files' = [files EXCEPT ![fname] = [exists |-> TRUE, text |-> SaveText(editroot)]]
    /\ UNCHANGED <<interp, device, drive, buffers, stats, flags, breakflag, user, seed,
                   compare>>

\* load: the store is cleared once the file is open, and the lines of the
\* file are entered.  A procedure that loads leaves main's cursor in freed
\* storage.
command_load ==
    /\ Builtin({"load"})
    /\ LET fname == Name(Tok, 1) IN
        IF fname \notin FileNames \/ ~files[fname].exists THEN
            /\ Ret("error", Behind(1))
            /\ UNCHANGED <<editroot, nextid>>
        ELSE
            /\ editroot' = loadfile(<<>>, nextid, files[fname].text)
            /\ nextid' = nextid + Len(files[fname].text)
            /\ IF introot[1].curlin # 0 THEN
                    /\ pc' = "fault"
                    /\ UNCHANGED <<r, linep>>
               ELSE Ret("ok", Behind(1))
    /\ UNCHANGED <<introot, varroot, ctlroot, dummyloop, device, drive, buffers, stats,
                   flags, breakflag, user, files, seed, compare>>


\* the cursor stays where the condition ended
SameCommand(c) == c
\* if: "just dump the rest of the line" when the condition is not met
RestOfLine(c) == Cur(c.lin, Len(Text(editroot, linebuffer, c.lin)) + 1, 0)
command_if ==
    /\ Builtin({"if"})
    /\ IF Param(1).r # "ok" THEN Ret(Param(1).r, Behind(1))
       ELSE IF Param(1).v = 0 THEN Ret("ok", RestOfLine(Behind(1)))
       ELSE Ret("ok", Behind(1))
    /\ UNCHANGED <<interp, device, drive, buffers, stats, flags, breakflag, user,
                   files, seed, compare>>

Next ==
    \/ ctlchandler
    \/ main_init
    \/ main_nxtlin
    \/ main_route
    \/ exec_invalid
    \/ command_write
    \/ command_read
    \/ command_drive
    \/ command_unprot
    \/ command_pattn
    \/ command_echo
    \/ exec_call
    \/ command_end
    \/ command_set
    \/ command_local
    \/ command_exit
    \/ command_exitonerror
    \/ command_loop
    \/ command_loopq
    \/ command_while
    \/ command_wend
    \/ command_for
    \/ command_fend
    \/ command_repeat
    \/ command_until
    \/ command_select
    \/ command_case
    \/ command_default
    \/ command_send
    \/ command_delt
    \/ command_save
    \/ command_load
    \/ command_srand
    \/ command_comp
    \/ command_compmode
    \/ command_dumpwrite
    \/ command_dumpread
    \/ command_list
    \/ command_untill
    \/ command_if

Spec == Init /\ [][Next]_vars

\* ----------------------------------------------------------------------
\* The break seen statement by statement.  ctlchandler is a signal handler:
\* it runs between any two statements of main, those of chkbrk included.
\* In this specification the chkbrk behind exec takes two steps,
\*     breakflags = breakflag;     (pc becomes "chkbrk0" or "chkbrk1")
\*     breakflag = 0; return breakflags;
\* and the handler may run between them.  The chkbrk behind readline is
\* taken in one step, as in Spec.
\* ----------------------------------------------------------------------
\* main behind exec, for a result that is routed without a call of chkbrk
main_result ==
    /\ r \in {"exit", "stop", "error"}
    /\ main_route

\* breakflags = breakflag
main_chkbrk ==
    /\ pc = "ret"
    /\ r \notin {"exit", "stop", "error"}
    /\ error_result' = FALSE
    /\ pc' = IF breakflag THEN "chkbrk1" ELSE "chkbrk0"
    /\ UNCHANGED <<r, linep, interp, device, drive, buffers, stats, exiterror, startup,
                   breakflag, user, files, seed, compare>>

\* control-C between the two statements of chkbrk
ctlchandler_chkbrk ==
    /\ Scenarios[scn].brk
    /\ pc \in {"chkbrk0", "chkbrk1"}
    /\ ~breakflag
    /\ breakflag' = TRUE
    /\ UNCHANGED <<pc, r, linep, interp, device, drive, buffers, stats, flags, user,
                   files, seed, compare>>

\* breakflag = 0; return breakflags; and main up to the next exec
main_chkbrk_clear ==
    /\ pc \in {"chkbrk0", "chkbrk1"}
    /\ breakflag' = FALSE
    /\ IF pc = "chkbrk1" THEN
            /\ pc' = IF exiterror THEN "exit" ELSE "nxtlin"
            /\ UNCHANGED <<linep, introot, varroot>>
       ELSE IF r # "restart" /\ ~AtEnd(editroot, linebuffer, linep)
                             /\ ~AtSep(editroot, linebuffer, linep) THEN
            /\ pc' = "nxtlin"
            /\ UNCHANGED <<linep, introot, varroot>>
       ELSE
            LET c == IF r # "restart" /\ AtSep(editroot, linebuffer, linep)
                     THEN Past(linep) ELSE linep
                n == nxtcmd(editroot, linebuffer, c, introot, varroot)
            IN  /\ pc' = n.pc
                /\ linep' = n.linep
                /\ introot' = n.is
                /\ varroot' = n.vr
    /\ UNCHANGED <<r, ctlroot, editroot, nextid, dummyloop, device, drive, buffers,
                   stats, flags, user, files, seed, compare>>

InitBreaks == Init /\ Scenarios[scn].kind = "race"

NextBreaks ==
    \/ ctlchandler
    \/ ctlchandler_chkbrk
    \/ main_nxtlin
    \/ main_result
    \/ main_chkbrk
    \/ main_chkbrk_clear
    \/ exec_invalid
    \/ command_set
    \/ command_echo
    \/ command_exitonerror
    \/ command_loopq

SpecBreaks == InitBreaks /\ [][NextBreaks]_vars

\* ----------------------------------------------------------------------
\* Steps and states the properties speak about.
\* ----------------------------------------------------------------------
\* exec runs the handler of one of the verbs in this step
Runs(names) == Builtin(names) /\ pc' # "exec"
\* the handler that ran returned ok
Succeeds(names) == Runs(names) /\ pc' = "ret" /\ r' = "ok"
\* a drive command whose drive number is there and evaluates
Selects == Runs({"drive"}) /\ Len(Tok.args) > 0 /\ Skipped(1).r = "ok"

\* ----------------------------------------------------------------------
\* C1: a write or w command executed while writeprot is true returns an
\* error and calls writesector not at all: the device contents and the
\* counters iopwrite and bcwrite stay as they are, whatever lba and sector
\* count the command gives or omits.
\* ----------------------------------------------------------------------
C1_ProtectedWriteRefused ==
    [][(Runs({"w", "write"}) /\ writeprot) =>
            /\ pc' = "ret" /\ r' = "error"
            /\ wrcalls' = wrcalls
            /\ disc' = disc
            /\ iopwrite' = iopwrite /\ bcwrite' = bcwrite]_vars

\* a write that would have changed sector 0 of the selected drive has been refused
C1_Witness ==
    /\ pc = "ret" /\ r = "error" /\ writeprot
    /\ ~AtEnd(editroot, linebuffer, linep)
    /\ Tok.verb = "w" /\ linep.off = 1 /\ Tok.args = <<Num(0), Num(1)>>
    /\ currentdrive >= 0
    /\ writebuffer[0] # disc[0]

\* ----------------------------------------------------------------------
\* C2: writeprot is true at startup, only unprot sets it false, and it is
\* true after every drive command whose drive number is given and evaluates;
\* the drive command without a number leaves it as it is.  So a write
\* succeeds only when an unprot was the last to touch the protection, after
\* the most recent drive command that selected a drive.
\* ----------------------------------------------------------------------
C2_RelockOnSelect ==
    /\ writeprot = TRUE
    /\ [][/\ (writeprot /\ ~writeprot') => Runs({"unprot"})
          /\ Selects => writeprot'
          /\ (Runs({"drive"}) /\ ~Selects) => (writeprot' = writeprot)
          /\ Succeeds({"w", "write"}) => lastlock = "unprot"]_vars

\* a drive has been selected after an unprot and a write: the drive is locked again
C2_Witness ==
    /\ pc = "ret" /\ r = "ok"
    /\ lastlock = "drive" /\ writeprot
    /\ wrcalls > 0

\* C2 as stated: writeprot is true after every drive command, in any form
C2_RelockOnAnyDrive == [][Runs({"drive"}) => writeprot']_vars

\* ----------------------------------------------------------------------
\* More steps and states the properties speak about.
\* ----------------------------------------------------------------------
\* exec finds the verb among the labels and runs the call in this step
Calls == pc = "exec" /\ fndpgm(editroot, Tok.verb) # 0 /\ pc' # "exec"
\* the stored line called, and what binding its parameters gives
Callee == editroot[fndpgm(editroot, Tok.verb)]
Bound == BindParams(Callee.params, 1, Tok, varroot)
\* a user variable is defined; its value
Defined(x) == fndvar(varroot, x) # 0
Val(x) == varroot[fndvar(varroot, x)].val
\* the names on a variable stack, root first
Names(vr) == [i \in 1..Len(vr) |-> vr[i].varstr]
\* main starts on the first command of a line just read at the prompt
StartsLine == pc = "nxtlin" /\ nprompts' = nprompts + 1 /\ pc' = "exec"

\* ----------------------------------------------------------------------
\* C3: when the verb is the label of a stored line and its parameters
\* evaluate, exec pushes one variable per declared parameter in declared
\* order, pushes a frame on the start of the body of that line, and
\* returns restart.
\* ----------------------------------------------------------------------
C3_CallRestarts ==
    [][(Calls /\ Bound.r = "ok") =>
            /\ varroot' = Bound.vr
            /\ Len(introot') = Len(introot) + 1
            /\ introot'[1].curlin = Callee.id
            /\ linep' = Cur(Callee.id, 1, 0)
            /\ pc' = "ret" /\ r' = "restart"]_vars

\* ----------------------------------------------------------------------
\* C4: when a procedure returns through end, the variable stack holds the
\* names it held when the call began: no parameter of the call and no
\* variable created inside the procedure is left.
\* ----------------------------------------------------------------------
C4_CallLeavesNoVariable ==
    [][(Runs({"end"}) /\ pc' = "ret" /\ r' = "ok" /\ introot[1].curlin # 0) =>
            Names(varroot') = Names(introot[1].base)]_vars

\* ----------------------------------------------------------------------
\* C5: when interpreter frames above the bottom one are popped, the
\* variable stack holds afterwards the names, in the order, that it held
\* when the lowest of them was pushed.
\* ----------------------------------------------------------------------
C5_PopRestoresNames ==
    [][Len(introot') < Len(introot) =>
            LET d == IF Len(introot') = 0 THEN Len(introot) - 1
                     ELSE Len(introot) - Len(introot')
            IN  d >= 1 => Names(varroot') = Names(introot[d].snap)]_vars

\* ----------------------------------------------------------------------
\* C6: when main starts to execute a line just read at the prompt, the
\* interpreter stack is exactly one frame, the immediate frame on the
\* input buffer.
\* ----------------------------------------------------------------------
C6_OneFrameAtLineStart ==
    [][StartsLine => (Len(introot') = 1 /\ introot'[1].curlin = 0)]_vars

\* ----------------------------------------------------------------------
\* C7: when a handler returns to main, the interpreter stack holds at
\* least one frame.
\* ----------------------------------------------------------------------
C7_StackNeverDry == pc = "ret" => Len(introot) >= 1

\* ----------------------------------------------------------------------
\* C8: the variables a and x, which only lines typed at the prompt create
\* with set, stay defined once they are defined, as long as the process runs.
\* ----------------------------------------------------------------------
C8_ImmediateVariableStays ==
    [][(Scenarios[scn].kind \in {"call", "break"} /\ pc' # "exit") =>
            /\ Defined("a") => Defined("a")'
            /\ Defined("x") => Defined("x")']_vars

\* ----------------------------------------------------------------------
\* C9: in cmds; l N and cmds; lq N the stop count is N as an int.  With a
\* stop count from 1 to the largest int the commands in front of the loop
\* verb are executed that many times before the loop verb returns ok; with
\* the stop count 0 they are executed once; with a negative stop count or
\* none the loop verb never returns ok.
\* ----------------------------------------------------------------------
LoopVerbs == {"l", "loop", "lq", "loopq"}
\* c counts the executions of the commands in front of the loop verb: the
\* stored line is entered with c = 0, and so is the typed line when it is
\* the second line of the run
Counted == Tok.verb \in {"l", "loop"} \/ nprompts = 2
ForCount(a, b, s) ==
    IF s > 0 THEN (IF b < a THEN 0 ELSE ((b - a) \div s) + 1)
    ELSE (IF b > a THEN 0 ELSE ((a - b) \div (-s)) + 1)
\* the decimal digits t collects over n runs starting with i = a
RECURSIVE ForTrace(_, _, _, _)
ForTrace(a, s, n, t) == IF n = 0 THEN t ELSE ForTrace(a + s, s, n - 1, t * 10 + a)
C11_CountedLoops ==
    [][(Scenarios[scn].kind = "rep" /\ Runs({"echo", "echon"})) =>
            LET n == Scenarios[scn].par.a IN
            Val("k") = IF Val("m") = 2 /\ n < 1 THEN 1 ELSE n]_vars
C11_LoopBodies ==
    [][/\ (Scenarios[scn].kind = "rep" /\ Runs({"echo", "echon"})) =>
            LET n == Scenarios[scn].par.a IN
            Val("k") = IF Val("m") = 2 /\ n < 1 THEN 1 ELSE n
       /\ Scenarios[scn].kind = "nest" => ~Defined("y")']_vars

\* ----------------------------------------------------------------------
\* C12: skipcmd returns a verb only at the nesting level the scan started
\* at.  while 0; while 1; x; wend; y; wend; z goes on at z and executes
\* neither x nor y, and a select whose case that does not match holds a
\* select ... send still examines its own cases behind it.
\* ----------------------------------------------------------------------
C12_SkipsNested ==
    [][Scenarios[scn].kind = "nest" =>
            /\ ~Defined("x")'
            /\ ~Defined("y")'
            /\ (Runs({"echo"}) /\ Defined("t")) => Val("t") = 1]_vars

\* ----------------------------------------------------------------------
\* C13: skipcmd always returns: the scan for a verb that is not there ends
\* with an error and main comes back to the prompt.
\* ----------------------------------------------------------------------
C13_SkipReturns == pc # "hang"

\* ----------------------------------------------------------------------
\* C14: select v ... send, not nested, executes the body of the first
\* case that lists v, else the body of default when there is one, else no
\* body; one body at most, and behind it execution goes on behind the send.
\* ----------------------------------------------------------------------
Chosen(par) ==
    IF par.a \in {1, 2} THEN 1
    ELSE IF par.a = 3 THEN 3
    ELSE IF par.given THEN 9 ELSE 0
Stored(er) ==
    [i \in 1..Len(er) |-> [label |-> er[i].label, params |-> er[i].params,
                           line |-> er[i].line]]
InsertAt(s, n, x) ==
    IF n > Len(s) THEN Append(s, x)
    ELSE [i \in 1..(Len(s) + 1) |-> IF i < n THEN s[i] ELSE IF i = n THEN x ELSE s[i - 1]]
RemoveAt(s, n) ==
    IF n \notin 1..Len(s) THEN s
    ELSE [i \in 1..(Len(s) - 1) |-> IF i < n THEN s[i] ELSE s[i + 1]]
\* main reads the k-th line of the scenario at the prompt
Reads(k) ==
    /\ pc = "nxtlin" /\ nprompts' = nprompts + 1 /\ ~breakflag
    /\ linebuffer' = Scenarios[scn].lines[k].body
C15_EditsAsList ==
    [][Scenarios[scn].kind = "edit" =>
            /\ \A k \in 1..Len(Scenarios[scn].lines) :
                    LET ln == Scenarios[scn].lines[k] IN
                    (Reads(k) /\ ln.edit) =>
                        Stored(editroot') =
                            InsertAt(Stored(editroot), ln.num,
                                     [label |-> ln.label, params |-> ln.params,
                                      line |-> ln.body])
            /\ (Runs({"delt"}) /\ Param(1).r = "ok") =>
                    Stored(editroot') = RemoveAt(Stored(editroot), Param(1).v)
            /\ (pc # "nxtlin" /\ ~Runs({"delt", "load"})) =>
                    Stored(editroot') = Stored(editroot)]_vars
\* a line was put between the two lines of the file and taken out again
C15_Witness ==
    /\ Scenarios[scn].kind = "edit"
    /\ pc = "ret" /\ r = "ok"
    /\ linebuffer = <<Cmd("delt", <<Num(2)>>)>>
    /\ nextid = 4
    /\ Stored(editroot) = Stored(loadfile(<<>>, 1, Scenarios[scn].ini))

\* ----------------------------------------------------------------------
\* C16: save f and then load f gives the store back: as many lines, in the
\* same order, each with its label, its parameter names and its commands.
\* ----------------------------------------------------------------------
C16_SaveLoadRoundTrip ==
    [][(/\ Runs({"load"})
        /\ Name(Tok, 1) \in FileNames
        /\ files[Name(Tok, 1)] = [exists |-> TRUE, text |-> SaveText(editroot)]) =>
            Stored(editroot') = Stored(editroot)]_vars

\* ----------------------------------------------------------------------
\* C17: when the first n sectors of the write buffer hold what pattn p v n
\* fills them with, 0 <= n <= NOSECS, and the first n sectors of the read
\* buffer are identical to them, comp p v n prints no miscompare and
\* returns ok, whatever the compare mode.
\* ----------------------------------------------------------------------
\* the value and length comp is given evaluate
Compares(pats) ==
    /\ Runs({"c", "comp"})
    /\ Len(Tok.args) = 3
    /\ Name(Tok, 1) \in pats
    /\ Skipped(2).r = "ok" \/ Word(Tok, 2) = Var("rand")
    /\ Skipped(3).r = "ok"
    /\ Skipped(3).v \in 0..NOSECS
CompNamesSet == {"cnt", "dwcnt", "val", "rand", "lba", "buffs"}
\* the value comp is given
CompVal == Draw(Word(Tok, 2), varroot, drivesize, 42, RightFirst, FALSE).v
\* sectors 0..n-1 of the write buffer are as pattn pat v n leaves them
PattnFilled(pat, v, n) ==
    \A k \in 0..(n - 1) : writebuffer[k] = Pattern(pat, v, k, writebuffer[k], RightFirst)
\* sectors 0..n-1 of the two buffers are identical
SameUpTo(n) == \A k \in 0..(n - 1) : readbuffer[k] = writebuffer[k]
C17_PattnThenComp ==
    [][(/\ Compares({"cnt", "dwcnt", "val", "rand", "lba"})
        /\ ~breakflag
        /\ PattnFilled(Name(Tok, 1), CompVal, Skipped(3).v)
        /\ SameUpTo(Skipped(3).v)) =>
            /\ pc' = "ret" /\ r' = "ok"
            /\ reports' = <<>>
            /\ repcnt' = 0
            /\ first']_vars
\* comp lba 300 over the whole buffer has run in mode fail behind the pattn,
\* write and read of the same, and has found nothing
C17_Witness ==
    /\ Scenarios[scn].kind = "patt"
    /\ pc = "ret" /\ r = "ok"
    /\ curmode = "fail"
    /\ linebuffer = Lin(<<Mode("fail"), Cmd("comp", <<Var("lba"), Num(300), Num(NOSECS)>>),
                          Cmd("echo", <<>>)>>).body
    /\ examined = 4 * NOSECS
    /\ reports = <<>>
    /\ readbuffer[NOSECS - 1] = writebuffer[NOSECS - 1]
    /\ readbuffer[NOSECS - 1] # Zeroes

\* ----------------------------------------------------------------------
\* C18: comp buffs over n sectors, 0 <= n <= NOSECS and the whole buffer
\* when no length is given, running to its end, prints no miscompare and
\* leaves the first-miscompare flag set if and only if sectors 0..n-1 of the
\* read buffer and the write buffer are identical.
\* ----------------------------------------------------------------------
\* the number of sectors comp is told to compare
CompLen == IF Len(Tok.args) >= 3 THEN Skipped(3).v ELSE NOSECS
C18_BuffsIffIdentical ==
    [][(/\ Runs({"c", "comp"})
        /\ Name(Tok, 1) = "buffs"
        /\ Len(Tok.args) = 1 \/ Compares({"buffs"})
        /\ ~breakflag) =>
            ((reports' = <<>> /\ first') <=> SameUpTo(CompLen))]_vars
\* comp buffs over one sector has found nothing: the first sectors are the
\* same and not zeroes, the second sectors differ
C18_Witness ==
    /\ Scenarios[scn].kind = "miss"
    /\ pc = "ret" /\ r = "ok"
    /\ linebuffer = Scenarios[scn].lines[4].body
    /\ examined = SECSIZE
    /\ reports = <<>> /\ first
    /\ readbuffer[0] = writebuffer[0] /\ readbuffer[0] # Zeroes
    /\ readbuffer[1] # writebuffer[1]

\* ----------------------------------------------------------------------
\* C19: a comp that runs to its end or to its first miscompare, with M the
\* miscompares among the bytes it is to examine, in their order.  When M is
\* empty it prints nothing and returns ok.  Otherwise, in mode fail it
\* prints M[1], examines no byte behind it and returns an error; in mode
\* one it prints M[1] and nothing else, examines every byte and returns ok;
\* in mode all it returns ok, and what it prints, each count of repeats
\* taken as that many more of the miscompare printed before it, is M, pair
\* by pair.  Every comp starts from the first-miscompare flag set, no pair
\* remembered and a tally of zero: the flag is afterwards set exactly when
\* M is empty, a pair is remembered exactly when M is not empty and the
\* mode is not fail, and the tally is zero; a comp that is refused leaves
\* the flag set, no pair and a tally of zero.
\* ----------------------------------------------------------------------
\* the bytes the comp at the cursor is to examine
CompPairs ==
    Pairs(IF Len(Tok.args) = 0 THEN "cnt" ELSE Name(Tok, 1),
          IF Len(Tok.args) >= 2 THEN CompVal ELSE 0,
          CompLen, readbuffer, writebuffer, RightFirst)
Unequal(p) == p.nb # p.ob
\* the position in ps of its first miscompare
RECURSIVE FirstMiss(_, _)
FirstMiss(ps, k) == IF k > Len(ps) \/ Unequal(ps[k]) THEN k ELSE FirstMiss(ps, k + 1)
\* what was printed with every count of repeats unfolded
RECURSIVE Unfold(_, _)
Unfold(rs, last) ==
    IF rs = <<>> THEN <<>>
    ELSE IF rs[1].kind = "miss" THEN <<rs[1]>> \o Unfold(Tail(rs), rs[1])
    ELSE [j \in 1..rs[1].nb |-> [last EXCEPT !.kind = "info"]] \o Unfold(Tail(rs), last)
\* the unfolded print u tells the miscompares m
Tells(u, m) ==
    /\ Len(u) = Len(m)
    /\ \A k \in 1..Len(m) :
            /\ u[k].nb = m[k].nb /\ u[k].ob = m[k].ob
            /\ u[k].kind = "miss" => u[k].addr = m[k].addr
\* a comp with a known pattern whose value and length evaluate
CompRuns ==
    /\ Runs({"c", "comp"})
    /\ ~breakflag
    /\ Len(Tok.args) <= 1 \/ Compares(CompNamesSet)
    /\ Len(Tok.args) = 1 => Name(Tok, 1) \in CompNamesSet
\* a comp that returns before it examines a byte
CompRefused ==
    /\ Runs({"c", "comp"})
    /\ pc' = "ret"
    /\ examined' = 0
    /\ r' # "ok"
C19_CompareModes ==
    [][/\ CompRuns =>
            LET ps == CompPairs
                M == SelectSeq(ps, Unequal)
            IN  /\ pc' = "ret"
                /\ first' = (M = <<>>)
                /\ dataset' = (M # <<>> /\ curmode # "fail")
                /\ repcnt' = 0
                /\ M = <<>> => r' = "ok" /\ reports' = <<>> /\ examined' = Len(ps)
                /\ (M # <<>> /\ curmode = "fail") =>
                        /\ r' = "error"
                        /\ reports' = <<Miss(M[1].addr, M[1].nb, M[1].ob)>>
                        /\ examined' = FirstMiss(ps, 1)
                /\ (M # <<>> /\ curmode = "one") =>
                        /\ r' = "ok"
                        /\ reports' = <<Miss(M[1].addr, M[1].nb, M[1].ob)>>
                        /\ examined' = Len(ps)
                /\ (M # <<>> /\ curmode = "all") =>
                        /\ r' = "ok"
                        /\ Tells(Unfold(reports', Info(0)), M)
                        /\ examined' = Len(ps)
       /\ CompRefused => first' /\ ~dataset' /\ repcnt' = 0 /\ reports' = <<>>]_vars
\* comp in mode all has printed two different miscompares and a count of
\* repeats
C19_Witness ==
    /\ Scenarios[scn].kind = "miss"
    /\ curmode = "all"
    /\ pc = "ret" /\ r = "ok"
    /\ examined = SECSIZE * NOSECS
    /\ \E i, j, k \in 1..Len(reports) :
            /\ i < j
            /\ reports[i].kind = "miss" /\ reports[j].kind = "miss"
            /\ reports[i].ob # reports[j].ob
            /\ reports[k].kind = "info"

\* ----------------------------------------------------------------------
\* C20: a pattn or comp that returns, with whatever result, leaves the seed
\* of the generator as it found it; pattn rand fills each sector with the
\* bytes the generator delivers from the seed 42, whatever the seed was,
\* and comp rand finds no miscompare in sectors that hold those bytes.
\* ----------------------------------------------------------------------
\* the bytes of a sector of the rand pattern
RandSector == RandFill(42, SECSIZE, RightFirst)
C20_SeedKept ==
    [][/\ (Runs({"pt", "pattn", "c", "comp"}) /\ pc' = "ret") => seed' = seed
       /\ (Succeeds({"pt", "pattn"}) /\ Name(Tok, 1) = "rand") =>
            \A k \in 0..(NOSECS - 1) :
                (Len(Tok.args) < 3 \/ k < Skipped(3).v) => writebuffer'[k] = RandSector
       /\ (/\ CompRuns /\ Name(Tok, 1) = "rand"
           /\ \A k \in 0..(CompLen - 1) : readbuffer[k] = RandSector) =>
                r' = "ok" /\ reports' = <<>>]_vars
\* numbers have been drawn, and a comp rand in mode fail has returned an
\* error at its first miscompare
C20_Witness ==
    /\ Scenarios[scn].kind = "rnd"
    /\ RightFirst
    /\ pc = "ret" /\ r = "error"
    /\ curmode = "fail"
    /\ Len(reports) = 1
    /\ seed \notin {1, 42}
    /\ writebuffer[0] = RandSector

\* ----------------------------------------------------------------------
\* C21: behind a command that returned error, and behind a command that
\* left the cursor in front of a word ("Invalid command termination"), main
\* executes no further command of the line or program: it goes to the
\* prompt when exitonerror is off, and ends the process with the error flag
\* set when exitonerror is on.
\* ----------------------------------------------------------------------
\* exec has returned and main finds neither the end nor a separator
BadEnd ==
    /\ pc = "ret"
    /\ r \notin {"exit", "stop", "error", "restart"}
    /\ ~breakflag
    /\ ~AtEnd(editroot, linebuffer, linep)
    /\ ~AtSep(editroot, linebuffer, linep)
C21_ErrorEndsLine ==
    [][/\ (pc = "ret" /\ r = "error") =>
            IF exiterror THEN pc' = "exit" /\ error_result' = TRUE ELSE pc' = "nxtlin"
       /\ BadEnd =>
            IF exiterror THEN pc' = "exit" /\ error_result' = TRUE ELSE pc' = "nxtlin"]_vars

\* ----------------------------------------------------------------------
\* C22: when exit ends the process, the error flag the process returns is
\* the error flag of the command executed before exit.
\* ----------------------------------------------------------------------
C22_ExitStatus ==
    [][(pc = "ret" /\ r = "exit") => (pc' = "exit" /\ error_result' = error_result)]_vars

\* ----------------------------------------------------------------------
\* C23: with exitonerror off, a dump, a comp or a list that finds the break
\* flag up and takes it down returns stop, and main goes from stop to the
\* prompt without another command.
\* ----------------------------------------------------------------------
LongVerbs == {"dw", "dumpwrite", "dr", "dumpread", "c", "comp", "list"}
C23_BreakStopsCommand ==
    [][/\ (Runs(LongVerbs) /\ ~exiterror /\ breakflag /\ ~breakflag') => r' = "stop"
       /\ (pc = "ret" /\ r = "stop") => pc' = "nxtlin"]_vars

\* ----------------------------------------------------------------------
\* C24: a break raised while a line is executing ends that line and no
\* other: whoever takes the break flag down either is main going to the
\* prompt, or to the exit when exitonerror is on, or is a handler that
\* returns stop or exit, so the flag is never taken down with the line
\* still running; and main goes to the prompt behind a break with the flag
\* down, so the next line is not taken for broken.
\* ----------------------------------------------------------------------
C24_BreakEndsLine ==
    [][/\ (pc \in {"exec", "ret"} /\ breakflag /\ ~breakflag') =>
            \/ pc' = IF exiterror THEN "exit" ELSE "nxtlin"
            \/ pc' = "ret" /\ r' = (IF exiterror THEN "exit" ELSE "stop")
       /\ (pc = "ret" /\ r \in {"ok", "restart"} /\ breakflag) =>
            ~breakflag' /\ pc' = IF exiterror THEN "exit" ELSE "nxtlin"]_vars

\* ----------------------------------------------------------------------
\* C25: end executed by the line typed at the prompt returns error and
\* leaves the interpreter stack as it is; end executed by a stored line pops
\* one frame, returns ok and leaves the cursor where exec recorded it in the
\* frame of the caller, which is behind the parameters of the call.
\* ----------------------------------------------------------------------
C25_EndReturns ==
    [][/\ (Runs({"end"}) /\ introot[1].curlin = 0) =>
            (r' = "error" /\ introot' = introot)
       /\ (Runs({"end"}) /\ introot[1].curlin # 0) =>
            /\ r' = "ok"
            /\ Len(introot') = Len(introot) - 1
            /\ linep' = introot[2].curchr
       /\ (Calls /\ Bound.r = "ok") =>
            introot'[2].curchr = Behind(Len(Callee.params))]_vars

\* ----------------------------------------------------------------------
\* C26: the adapter holds at most one device handle open.
\* ----------------------------------------------------------------------
C26_OneHandle == handles <= 1

\* ----------------------------------------------------------------------
\* C27: a parameter written without spaces over integer literals and
\* defined variables has the value its structure gives it (signs and
\* parentheses tightest, then * / %, then + -, then one comparison);
\* division or modulus by zero is an error, and the command that holds
\* the parameter changes no variable.
\* ----------------------------------------------------------------------
RECURSIVE Plain(_)
Plain(e) ==
    IF e[1] = "num" THEN TRUE
    ELSE IF e[1] = "var" THEN Defined(e[2])
    ELSE IF e[1] = "none" THEN FALSE
    ELSE IF e[1] \in {"neg", "pos"} THEN Plain(e[2])
    ELSE Plain(e[2]) /\ Plain(e[3])
Expected(k) == getparam(Word(Tok, k), varroot, drivesize)
DividesByZero == \E k \in 1..Len(Tok.args) : Plain(Word(Tok, k)) /\ Expected(k).r = "error"
C27_Evaluates ==
    [][/\ (Runs({"s", "set"}) /\ Plain(Word(Tok, 2)))
            => spparsed(Word(Tok, 2), varroot, drivesize) = Expected(2)
       /\ (Runs({"s", "set"}) /\ Plain(Word(Tok, 2)) /\ Expected(2).r = "ok")
            => /\ r' = "ok"
               /\ fndvar(varroot', Name(Tok, 1)) # 0
               /\ varroot'[fndvar(varroot', Name(Tok, 1))].val = Expected(2).v
       /\ ((Runs({"s", "set"}) \/ Calls) /\ DividesByZero)
            => (r' = "error" /\ varroot' = varroot)]_vars

\* ----------------------------------------------------------------------
\* C28: when a procedure runs past the last stored line without an end,
\* every interpreter frame is discarded and the next thing main does is to
\* read a line at the prompt; the commands behind the call, on the line
\* typed and on the lines of the callers, are not executed.
\* ----------------------------------------------------------------------
FallsOff ==
    /\ pc = "ret" /\ r = "ok" /\ ~breakflag
    /\ AtEnd(editroot, linebuffer, linep)
    /\ Len(introot) > 1 /\ introot[1].curlin # 0
    /\ NextLine(editroot, introot[1].curlin) = NOLINE
Skipped28 ==
    Scenarios[scn].kind = "fall" =>
        \A x \in {"a", "c"} : ~(Defined(x) /\ Val(x) = 1)
C28_EndOfProgram ==
    [][/\ FallsOff => (pc' = "nxtlin" /\ introot' = <<>>)
       /\ Skipped28 /\ Skipped28']_vars
C28_Witness ==
    /\ Scenarios[scn].kind = "fall"
    /\ pc = "nxtlin" /\ introot = <<>>
    /\ linebuffer = Scenarios[scn].lines[2].body
    /\ Defined("b") /\ Val("b") = 1
    /\ Defined("c") /\ Val("c") = 0

\* ----------------------------------------------------------------------
\* C29: wend, until and fend first discard every control frame of another
\* kind on top of the control stack; the frame they then act on is a
\* while, repeat or for frame respectively, which they keep or pop, and
\* with no frame left they return error.
\* ----------------------------------------------------------------------
RECURSIVE PurgeAll(_, _)
PurgeAll(cs, ctl) ==
    IF Len(cs) # 0 /\ cs[1].ctl # ctl THEN PurgeAll(popctl(cs), ctl) ELSE cs
Closes(verb, ctl) ==
    Runs({verb}) =>
        IF PurgeAll(ctlroot, ctl) = <<>> THEN r' = "error"
        ELSE ctlroot' \in {PurgeAll(ctlroot, ctl), popctl(PurgeAll(ctlroot, ctl))}
C29_ClosersOwnKind ==
    [][/\ Closes("wend", "while")
       /\ Closes("until", "repeat")
       /\ Closes("fend", "for")]_vars

\* ----------------------------------------------------------------------
\* C30: on a line of well-nested loops whose bodies hold no go, no end and
\* no error, the control stack at every command is the stack of the loops
\* that enclose the command on the line, innermost first: one frame more
\* per enclosing loop inside a body, and behind a closer the stack that was
\* there in front of its opener.
\* ----------------------------------------------------------------------
Openers == {"while", "repeat", "for"}
Closers == {"wend", "until", "fend"}
\* the loops open in front of token p of a line, innermost first
RECURSIVE Enclosing(_, _, _, _)
Enclosing(toks, i, p, st) ==
    IF i >= p \/ i > Len(toks) THEN st
    ELSE IF toks[i].verb \in Openers THEN
        Enclosing(toks, i + 1, p, <<[ctl |-> toks[i].verb, at |-> i]>> \o st)
    ELSE IF toks[i].verb \in Closers /\ Len(st) > 0 THEN
        Enclosing(toks, i + 1, p, Tail(st))
    ELSE Enclosing(toks, i + 1, p, st)
\* the kind of each control frame and the token that pushed it
Frames(cs) ==
    [k \in 1..Len(cs) |->
        [ctl |-> cs[k].ctl,
         at |-> IF cs[k].ctl = "repeat" THEN cs[k].chrpos.chr - 1 ELSE cs[k].chrpos.chr]]
C30_StackBalanced ==
    (Scenarios[scn].kind \in {"bal", "balskip"} /\ pc = "exec")
        => Frames(ctlroot) = Enclosing(linebuffer, 1, linep.chr, <<>>)

\* ----------------------------------------------------------------------
\* C31: at every fend the end expression is evaluated again from the
\* command text, with the variables as the loop body left them and the for
\* variable already incremented; the increment is the step the for command
\* stored in its control frame, which a later change of a variable named in
\* the step expression does not alter.  The loop for i 1 e z with e = 3,
\* z = 1, whose body sets e to 2 and z to 2, runs its body for i = 1 and 2.
\* ----------------------------------------------------------------------
AtFend ==
    /\ Runs({"fend"})
    /\ ctlroot # <<>>
    /\ ctlroot[1].ctl = "for"
    /\ ctlroot[1].var <= Len(varroot)
ForVar == PtrIdx(varroot, ctlroot[1].var)
EndAgain == spparam(WordAt(ctlroot[1].chrpos), varroot', drivesize)
StepAgain == getparam(WordAt(Cur(ctlroot[1].chrpos.lin, ctlroot[1].chrpos.chr, 4)),
                      varroot, drivesize)
EndEvaluatedAgain ==
    (AtFend /\ EndAgain.r = "ok") =>
        /\ pc' = "ret" /\ r' = "ok"
        /\ IF OutOfRange(varroot'[ForVar].val, EndAgain.v, ctlroot[1].step)
           THEN ctlroot' = Tail(ctlroot) /\ linep' = Behind(0)
           ELSE ctlroot' = ctlroot /\ linep' = Past(ctlroot[1].chrpos)
C31_EndAgainStepStored ==
    [][/\ AtFend => varroot'[ForVar].val = varroot[ForVar].val + ctlroot[1].step
       /\ EndEvaluatedAgain
       /\ (Scenarios[scn].kind = "vary" /\ Runs({"for"})) => ctlroot'[1].step = 1
       /\ (Scenarios[scn].kind = "vary" /\ Runs({"echo"})) =>
                (Val("k") = 2 /\ Val("i") = 3)]_vars

\* the loop has ended behind its second run: e and z were changed in the body
C31_Witness ==
    /\ Scenarios[scn].kind = "vary"
    /\ pc = "exec" /\ Tok.verb = "echo"
    /\ Val("e") = 2 /\ Val("z") = 2
    /\ Val("k") = 2 /\ Val("i") = 3
    /\ ctlroot = <<>>

\* C31 as stated: the step is evaluated again from the text as well
C31_BothAgain ==
    [][/\ (AtFend /\ StepAgain.r = "ok") =>
                varroot'[ForVar].val = varroot[ForVar].val + StepAgain.v
       /\ EndEvaluatedAgain]_vars

\* ----------------------------------------------------------------------
\* C32: a loop verb counts in the entry of its own cursor position in the
\* list of its own line: it changes no entry of another position and no
\* list of another line, no list holds two entries of one position, the
\* entry is 0 when the verb has returned ok, and every counter of every
\* stored line and of the typed line is 0 when a new input line starts.
\* The typed line  a++; l 2; b++; lq 2; echo  adds 4 to a and 2 to b before
\* it reaches echo; the stored program with the two loops on two lines
\* counts c = 2 and d = 2.
\* ----------------------------------------------------------------------
ListOf(er, dl, lin) == IF lin = 0 THEN dl ELSE er[LineIdx(er, lin)].looplist
CountAt(list, pos) ==
    IF CntIdx(list, pos) = 0 THEN 0 ELSE list[CntIdx(list, pos)].loopcount
Sites(list) == {list[j].pos : j \in 1..Len(list)}
OneEntryEach(list) ==
    \A i, j \in 1..Len(list) : list[i].pos = list[j].pos => i = j
AllLists(er, dl) == {dl} \cup {er[i].looplist : i \in 1..Len(er)}
AllZero(er, dl) ==
    \A list \in AllLists(er, dl) : \A j \in 1..Len(list) : list[j].loopcount = 0
OwnCounter ==
    (Runs(LoopVerbs) /\ pc' = "ret" /\ r' \in {"ok", "restart"}) =>
        LET lin == introot[1].curlin
            old == ListOf(editroot, dummyloop, lin)
            new == ListOf(editroot', dummyloop', lin)
        IN  /\ CountAt(new, Upto(1)) =
                    IF r' = "ok" THEN 0 ELSE CountAt(old, Upto(1)) + 1
            /\ Sites(new) = Sites(old) \cup {Upto(1)}
            /\ \A q \in Sites(old) \ {Upto(1)} : CountAt(new, q) = CountAt(old, q)
            /\ lin # 0 => dummyloop' = dummyloop
            /\ \A i \in 1..Len(editroot) :
                    editroot[i].id # lin => editroot'[i] = editroot[i]
C32_LoopCounters ==
    [][/\ OwnCounter
       /\ \A list \in AllLists(editroot, dummyloop) : OneEntryEach(list)
       /\ (pc = "nxtlin" /\ nprompts' # nprompts) => AllZero(editroot', dummyloop')
       /\ (Scenarios[scn].kind = "two" /\ Runs({"echo"})) =>
                (Val("a") = 2 * Val("b") /\ Val("b") \in {2, 4, 6})
       /\ (Scenarios[scn].kind = "two" /\ Runs({"echon"})) =>
                (Val("c") = 2 /\ Val("d") = 2)]_vars

\* the typed line has run its first loop twice and its second loop once
C32_Witness ==
    /\ Scenarios[scn].kind = "two"
    /\ pc = "exec" /\ Tok.verb = "echo"
    /\ Val("a") = 4 /\ Val("b") = 2
    /\ Len(dummyloop) = 2
    /\ AllZero(editroot, dummyloop)

\* ----------------------------------------------------------------------
\* C33: if c leaves the interpreter stack, the control stack and the
\* variables as they are.  With c zero it returns ok with the cursor at the
\* end of its line, so that no further command of the line is executed and
\* a stored program goes on with the first command of its next line; with
\* c not zero it returns ok with the cursor behind c, and the next command
\* of the line is executed.
\* ----------------------------------------------------------------------
\* the cursor is at the command behind the separator that follows c
NextOfLine(c) ==
    /\ c.lin = linep.lin
    /\ c.chr = linep.chr + 1
    /\ c.off = 0
\* the stored line the program goes on with behind the end of its line
GoesOn ==
    /\ pc = "ret" /\ r = "ok" /\ ~breakflag
    /\ AtEnd(editroot, linebuffer, linep)
    /\ Len(introot) > 1
    /\ NextLine(editroot, introot[1].curlin) # NOLINE
    /\ Text(editroot, linebuffer, NextLine(editroot, introot[1].curlin)) # <<>>
C33_If ==
    [][/\ Runs({"if"}) =>
            /\ pc' = "ret"
            /\ UNCHANGED <<introot, ctlroot, varroot>>
            /\ (Param(1).r = "ok" /\ Param(1).v = 0) =>
                    /\ r' = "ok"
                    /\ linep'.lin = linep.lin
                    /\ AtEnd(editroot, linebuffer, linep')
            /\ (Param(1).r = "ok" /\ Param(1).v # 0) =>
                    /\ r' = "ok"
                    /\ linep' = Behind(1)
       /\ (pc = "ret" /\ r = "ok" /\ ~breakflag /\ pc' = "exec"
                /\ linep.chr > 1 /\ AtSep(editroot, linebuffer, linep)
                /\ TokAt(editroot, linebuffer, Cur(linep.lin, linep.chr - 1, 0)).verb = "if")
            => NextOfLine(linep')
       /\ (GoesOn /\ pc' # pc) =>
            /\ pc' = "exec"
            /\ linep' = Cur(NextLine(editroot, introot[1].curlin), 1, 0)
            /\ introot'[1].curlin = linep'.lin
       /\ Scenarios[scn].kind = "if" =>
            /\ Defined("v") => Val("v") = 0
            /\ Runs({"echo"}) => Val("t") = 1
            /\ Runs({"echon"}) =>
                    (Val("w") = 1 /\ Val("u") = IF Val("c") = 0 THEN 0 ELSE 1)]_vars

\* cond 0: the stored program is behind the line of its if, u is still 0
C33_Witness ==
    /\ Scenarios[scn].kind = "if"
    /\ pc = "exec" /\ Tok.verb = "echon"
    /\ Val("c") = 0 /\ Val("u") = 0 /\ Val("w") = 1

\* ----------------------------------------------------------------------
\* C34: for a name x that is not one of the built-in variables, set x v
\* changes the value of the binding of x nearest to the root of the stack
\* and nothing else when x is bound, and pushes one binding of x with the
\* value v when it is not; local x pushes one binding of x with the value
\* 0 whether x is bound or not; a read of x gives the value of the binding
\* nearest to the root, and no step that pops no interpreter frame removes
\* or reorders a binding.
\* ----------------------------------------------------------------------
BuiltinVars == {"drvsiz", "secsiz", "bufsiz"}
Bindings(vr, x) == {i \in 1..Len(vr) : vr[i].varstr = x}
Newest(vr, x) == CHOOSE i \in Bindings(vr, x) : \A j \in Bindings(vr, x) : i <= j
SetX ==
    /\ Succeeds({"s", "set"})
    /\ Name(Tok, 1) \notin BuiltinVars \cup {""}
SetBound ==
    (SetX /\ Bindings(varroot, Name(Tok, 1)) # {}) =>
        /\ Len(varroot') = Len(varroot)
        /\ \A i \in 1..Len(varroot) :
                IF i = Newest(varroot, Name(Tok, 1))
                THEN /\ varroot'[i].varstr = Name(Tok, 1)
                     /\ Expected(2).r = "ok" => varroot'[i].val = Expected(2).v
                ELSE varroot'[i] = varroot[i]
SetUnbound ==
    (SetX /\ Bindings(varroot, Name(Tok, 1)) = {}) =>
        /\ Tail(varroot') = varroot
        /\ varroot'[1].varstr = Name(Tok, 1)
        /\ Expected(2).r = "ok" => varroot'[1].val = Expected(2).v
LocalPushes ==
    Runs({"local"}) =>
        /\ pc' = "ret" /\ r' = "ok"
        /\ varroot' = <<[varstr |-> Name(Tok, 1), val |-> 0]>> \o varroot
        /\ Name(Tok, 1) \notin BuiltinVars =>
                getparam(Var(Name(Tok, 1)), varroot', drivesize) = Ok(0)
ReadsNewest ==
    \A x \in {varroot[i].varstr : i \in 1..Len(varroot)} \ BuiltinVars :
        getparam(Var(x), varroot, drivesize) = Ok(varroot[Newest(varroot, x)].val)
BindingsStay ==
    Len(introot') >= Len(introot) =>
        /\ Len(varroot') >= Len(varroot)
        /\ Names(SubSeq(varroot', Len(varroot') - Len(varroot) + 1, Len(varroot')))
                = Names(varroot)
C34_SetAndLocal ==
    [][/\ SetBound
       /\ SetUnbound
       /\ LocalPushes
       /\ ReadsNewest
       /\ BindingsStay
       /\ (Scenarios[scn].kind = "local" /\ Runs({"echon"})) =>
                (Val("y") = 0 /\ Val("z") = 5 /\ Val("x") = 5
                    /\ Bindings(varroot, "x") # {Newest(varroot, "x")})
       /\ (Scenarios[scn].kind = "local" /\ Runs({"echo"})) =>
                (Val("w") = 0 /\ Val("x") = 3)]_vars

\* in the procedure: the local x is 5 and the x of the typed line is still 7
C34_Witness ==
    /\ Scenarios[scn].kind = "local"
    /\ pc = "exec" /\ Tok.verb = "echon"
    /\ Val("x") = 5 /\ Val("y") = 0 /\ Val("z") = 5
    /\ \E i \in Bindings(varroot, "x") : i # Newest(varroot, "x") /\ varroot[i].val = 7

\* ----------------------------------------------------------------------
\* C35: a step that is not the entry of a numbered input line and not the
\* execution of delt, clear or load leaves the stored lines as they are:
\* as many lines, in the same order, each with its label, its parameter
\* names and its text.  What such a step changes in a stored line is the
\* list of its loop counters.
\* ----------------------------------------------------------------------
LineEntry ==
    \E k \in 1..Len(Scenarios[scn].lines) : Reads(k) /\ Scenarios[scn].lines[k].edit
Ids(er) == [i \in 1..Len(er) |-> er[i].id]
PattnLen == IF Len(Tok.args) >= 3 THEN Skipped(3).v ELSE NOSECS
WriteBufferFrame ==
    writebuffer' # writebuffer =>
        /\ Runs({"pt", "pattn"})
        /\ \A k \in DOMAIN writebuffer :
                /\ k >= PattnLen => writebuffer'[k] = writebuffer[k]
                /\ Name(Tok, 1) = "lba" =>
                        \A j \in 5..SECSIZE : writebuffer'[k][j] = writebuffer[k][j]
ReadBufferFrame ==
    readbuffer' # readbuffer => (Runs({"r", "read"}) /\ rdcalls' = rdcalls + 1)
C36_BufferFrames == [][WriteBufferFrame /\ ReadBufferFrame]_vars

\* the same for every pattn whose sector count is inside the buffer
C36_InsideTheBuffer ==
    [][(Runs({"pt", "pattn"}) => PattnLen <= NOSECS) =>
            (WriteBufferFrame /\ ReadBufferFrame)]_vars

\* ----------------------------------------------------------------------
\* C39: read and write call the adapter only with a drive selected and
\* 0 <= lba, 1 <= count <= NOSECS, lba + count <= drivesize; with any
\* other lba and count that evaluate they return error and do not call
\* the adapter.
\* ----------------------------------------------------------------------
InRange(x) ==
    /\ currentdrive >= 0
    /\ 0 <= x.lba
    /\ 1 <= x.numsecs /\ x.numsecs <= NOSECS
    /\ x.lba + x.numsecs <= drivesize
AdapterCalled == rdcalls' # rdcalls \/ wrcalls' # wrcalls \/ pc' = "fault"
C39_CallsInRange ==
    [][(Runs({"r", "read", "w", "write"}) /\ Xfer.r = "ok") =>
            IF InRange(Xfer) THEN TRUE
            ELSE r' = "error" /\ pc' = "ret" /\ ~AdapterCalled]_vars

\* the same for every lba >= 0 and every count >= 1
C39_FromZeroAndOne ==
    [][(Runs({"r", "read", "w", "write"}) /\ Xfer.r = "ok"
            /\ Xfer.lba >= 0 /\ Xfer.numsecs >= 1) =>
            IF InRange(Xfer) THEN TRUE
            ELSE r' = "error" /\ pc' = "ret" /\ ~AdapterCalled]_vars

\* ----------------------------------------------------------------------
\* C37: no break is lost.  Whenever the break flag goes from raised to
\* clear, the chkbrk that clears it returns true: a chkbrk that has read
\* the flag as clear does not clear a flag that was raised since.
\* ----------------------------------------------------------------------
C37_NoBreakLost ==
    [][(breakflag /\ ~breakflag') => pc \in {"chkbrk1", "nxtlin"}]_vars

\* ----------------------------------------------------------------------
\* C38: main never clears the control stack.  No step of main (the routing
\* of a result, the break check, the end of a line or program, the reading
\* of the next line) and no end changes ctlroot, so the frame of a loop
\* whose body was left by an error, a stop, a break or an end is on the
\* stack when the next line is executed; an until on a later line pops the
\* frame a repeat of an earlier line has left, where it would return error
\* with an empty stack.
\* ----------------------------------------------------------------------
Abandoned ==
    /\ pc = "ret" /\ r # "exit" /\ ~exiterror
    /\ r \in {"error", "stop"} \/ breakflag
C38_FramesLeft ==
    [][/\ (pc \in {"ret", "nxtlin"} \/ Runs({"end"})) => ctlroot' = ctlroot
       /\ (Abandoned /\ pc' # pc) => pc' = "nxtlin"
       /\ (Runs({"until"}) /\ ctlroot # <<>> /\ ctlroot[1].ctl = "repeat"
                /\ Param(1).r = "ok" /\ Param(1).v # 0) =>
            (pc' = "ret" /\ r' = "ok" /\ ctlroot' = Tail(ctlroot))
       /\ (Runs({"until"}) /\ ctlroot = <<>>) => r' = "error"]_vars

\* until 1 was typed as the first command of a line and has returned ok: it
\* has popped the frame of a repeat whose body an earlier line left
C38_Witness ==
    /\ Scenarios[scn].kind = "left"
    /\ linebuffer = Scenarios[scn].lines[2].body
    /\ pc = "exec" /\ Tok.verb = "echo"
    /\ Len(introot) = 1

\* ----------------------------------------------------------------------
\* C40: a call of a stored procedure whose k-th parameter expression fails
\* returns that error and pushes no interpreter frame, and the variable
\* stack then holds, on top of what it held, the bindings of the
\* parameters 1 .. k-1 with the values of their expressions.
\* ----------------------------------------------------------------------
\* the variable stack with the first j parameters of the callee bound
RECURSIVE PushedUpTo(_)
PushedUpTo(j) ==
    IF j = 0 THEN varroot
    ELSE <<[varstr |-> Callee.params[j],
            val |-> spparam(Word(Tok, j), PushedUpTo(j - 1), drivesize).v]>>
            \o PushedUpTo(j - 1)
FailsAt(k) ==
    /\ \A j \in 1..(k - 1) : spparam(Word(Tok, j), PushedUpTo(j - 1), drivesize).r = "ok"
    /\ spparam(Word(Tok, k), PushedUpTo(k - 1), drivesize).r # "ok"
C40_FailedCallLeavesParams ==
    [][Calls =>
            \A k \in 1..Len(Callee.params) :
                FailsAt(k) =>
                    /\ pc' = "ret"
                    /\ r' = spparam(Word(Tok, k), PushedUpTo(k - 1), drivesize).r
                    /\ introot' = introot
                    /\ varroot' = PushedUpTo(k - 1)]_vars

\* two 10 1/0 has returned error: a is bound to 10 and no frame was pushed
C40_Witness ==
    /\ Scenarios[scn].kind = "expr"
    /\ pc = "ret" /\ r = "error"
    /\ linebuffer = Scenarios[scn].lines[7].body
    /\ Len(introot) = 1
    /\ varroot # <<>>
    /\ varroot[1] = [varstr |-> "a", val |-> 10]

====
